---- MODULE Spec2Model ----
(***************************************************************************)
(* A model of the quiz engine of streamlit_HyakuninIsshu:                  *)
(*   - modules/quiz_generator.py   QuizGenerator                           *)
(*   - modules/answer_validator.py AnswerValidator, QuizStatistics         *)
(*                                                                         *)
(* Strings are sequences of one-character strings, so that concatenation   *)
(* (f"{upper} {lower}") is computed and not assumed injective.             *)
(* Times are in tenths of a second, points in hundredths of a point:       *)
(* every float the model meets (0.1 * (5.0 - t), 0.7, 1.5) is then an      *)
(* integer.                                                                *)
(***************************************************************************)
EXTENDS Integers, Sequences, FiniteSets, Bags, TLC

VARIABLES
    poems_data,       \* QuizGenerator.poems_data: the corpus
    used_questions,   \* QuizGenerator.used_questions: set of question ids
    question,         \* what the generate_question call just made returned; None after any other call
    returned,         \* history: bag of the (poem_number, quiz_type) pairs returned since the last reset
    gen_hung,         \* TRUE once a generate_question call has entered a loop it never leaves
    grq,              \* get_random_questions: the loop's locals while it runs, then the list it
                      \* returned, until another call is made
    statistics,       \* AnswerValidator.statistics: a QuizStatistics
    result,           \* what the check_answer call just made returned; None after any other call
    calls,            \* history: the arguments of the check_answer calls since the last reset
    graded,           \* a QuizStatistics' counters and the grade _calculate_grade gave them
    quiz_session,     \* st.session_state['quiz_session']: the QuizSession
    session_state,    \* the other keys of st.session_state the managers use
    session_manager,  \* the SessionManager: its session_id
    screen_manager,   \* st.session_state.screen_manager and the ScreenManager's own
                      \* navigation_rules and screen_stack
    last_call,        \* history: the manager or generator call just made and what it returned
    peer,             \* the st.session_state of the other browser session the process
                      \* serves; None until that session has connected
    partial_seen      \* history: the data of the last should_update call with strategy
                      \* PARTIAL, for each (current screen, component)

gen_vars == <<poems_data, used_questions, question, returned, gen_hung, grq>>

val_vars == <<statistics, result, calls>>

mgr_vars == <<quiz_session, session_state, session_manager, screen_manager>>

app_vars == <<quiz_session, session_state, session_manager, screen_manager, last_call,
              peer, partial_seen>>

vars == <<poems_data, used_questions, question, returned, gen_hung, grq,
          statistics, result, calls, graded,
          quiz_session, session_state, session_manager, screen_manager, last_call,
          peer, partial_seen>>

\* Optional[T]: None is the empty sequence, a value x is <<x>>
None == <<>>

Some(x) == <<x>>

-----------------------------------------------------------------------------
(* Bounds *)

\* largest corpus drawn in Init
MaxPoems == 4
\* generate_question calls that return a question, between two resets
MaxCalls == 2
\* largest count passed to get_random_questions
MaxCount == 2
\* largest exclude_numbers list passed to generate_question
MaxExclude == 1
\* check_answer calls between two reset_statistics calls
MaxAnswers == 5
\* largest total_questions of the statistics that are graded
MaxTotal == 20
\* answers recorded in one QuizSession
MaxRecorded == 2
\* largest current_question an advance_question call starts from
MaxQuestion == 1
\* session identifiers generated
MaxSessions == 2
\* successful transitions of the screen manager
MaxNavigations == 3
\* navigations of a long walk during which the user may still go back to the start
MaxDetours == 5
\* SpecApp: check_answer calls the quiz screen makes and screens it visits
MaxPlayed == 6
MaxVisits == 5

-----------------------------------------------------------------------------
(* quiz_generator.py: data *)

QuizType == {"UPPER_TO_LOWER", "LOWER_TO_UPPER", "AUTHOR_TO_POEM", "POEM_TO_AUTHOR"}

\* the three keys of difficulty_poems, and a string that is none of them
Difficulties == {"beginner", "intermediate", "advanced", "other"}

Poem(n, u, l, a) == [number |-> n, upper |-> u, lower |-> l, author |-> a]

\* The poems corpora are drawn from, in file order. Poems 1 and 2 differ in both
\* verses and have the same full text; 2 and 23 share a lower verse, 23 and 30 an
\* upper verse; 1 and 61 share an author. 1, 2, 23 are "famous", 23 and 30 lie in
\* 21..60.
Catalogue ==
    << Poem(1,  <<"a">>,           <<"b", " ", "c">>, <<"P">>),
       Poem(2,  <<"a", " ", "b">>, <<"c">>,           <<"Q">>),
       Poem(23, <<"d">>,           <<"c">>,           <<"R">>),
       Poem(30, <<"d">>,           <<"e">>,           <<"S">>),
       Poem(61, <<"f">>,           <<"g">>,           <<"P">>) >>

Range(s) == {s[i] : i \in DOMAIN s}

\* a corpus is up to MaxPoems poems of the catalogue; the order of poems_data is
\* read only by random.choice and list.remove, so the list is held as a set
Corpora == {c \in SUBSET Range(Catalogue) : Cardinality(c) \in 1..MaxPoems}

\* p.get('number', p.get('id', 0)): every poem of a loaded corpus carries 'number'
PoemNumber(p) == p.number

\* famous_numbers
FamousNumbers == {1, 2, 5, 7, 9, 13, 17, 20, 23, 24, 33, 35, 43, 48, 51, 57, 66, 77, 83, 99}

get_beginner_poems == {p \in poems_data : PoemNumber(p) \in FamousNumbers}

get_intermediate_poems == {p \in poems_data : 21 <= PoemNumber(p) /\ PoemNumber(p) <= 60}

\* a lookup that gives the whole corpus for every difficulty
DifficultyPoemsUntiered(difficulty) == poems_data

\* self.difficulty_poems.get(difficulty, self.poems_data)
DifficultyPoems(difficulty) ==
    CASE difficulty = "beginner"     -> get_beginner_poems
      [] difficulty = "intermediate" -> get_intermediate_poems
      [] OTHER                       -> poems_data

\* f"{number}_{quiz_type.value}": the decimal number, "_" and one of four fixed
\* values that hold no digit before their first character; the pair stands for it
QuestionId(number, quiz_type) == <<number, quiz_type>>

\* f"{upper} {lower}"
FullText(p) == p.upper \o <<" ">> \o p.lower

-----------------------------------------------------------------------------
(* quiz_generator.py: building one question *)

\* the field of another poem that is offered as a wrong choice
WrongAnswerOf(p, quiz_type) ==
    CASE quiz_type = "UPPER_TO_LOWER" -> p.lower
      [] quiz_type = "LOWER_TO_UPPER" -> p.upper
      [] quiz_type = "AUTHOR_TO_POEM" -> FullText(p)

CorrectOf(p, quiz_type) ==
    CASE quiz_type = "UPPER_TO_LOWER" -> p.lower
      [] quiz_type = "LOWER_TO_UPPER" -> p.upper
      [] quiz_type = "AUTHOR_TO_POEM" -> FullText(p)
      [] quiz_type = "POEM_TO_AUTHOR" -> p.author

\* the test that lets wrong_answer into wrong_choices
AcceptsWrong(quiz_type, wrong_answer, wrong_choices, correct) ==
    IF quiz_type = "AUTHOR_TO_POEM"
    THEN wrong_answer \notin Range(wrong_choices)
    ELSE wrong_answer \notin Range(wrong_choices) /\ wrong_answer # correct

\* while len(wrong_choices) < 3 and other_poems: every list wrong_choices can be
\* when the loop ends, over all the ways random.choice can fall
RECURSIVE DrawWrong(_, _, _, _)
DrawWrong(quiz_type, correct, other_poems, wrong_choices) ==
    IF ~(Len(wrong_choices) < 3 /\ other_poems # {})
    THEN {wrong_choices}
    ELSE UNION {
        LET wrong_answer == WrongAnswerOf(wrong_poem, quiz_type) IN
        DrawWrong(quiz_type, correct, other_poems \ {wrong_poem},
                  IF AcceptsWrong(quiz_type, wrong_answer, wrong_choices, correct)
                  THEN Append(wrong_choices, wrong_answer)
                  ELSE wrong_choices)
        : wrong_poem \in other_poems }

OtherPoems(poem_data) == {p \in poems_data : PoemNumber(p) # PoemNumber(poem_data)}

\* poem_to_author: while len(wrong_choices) < 3 draws from all_authors with
\* replacement. It ends only when three authors other than the correct one exist,
\* and then with any three of them in any order; otherwise it never ends.
AllAuthors == {p.author : p \in poems_data}

AuthorLoopEnds(correct) == Cardinality(AllAuthors \ {correct}) >= 3

DrawAuthors(correct) ==
    {w \in [1..3 -> AllAuthors \ {correct}] : \A i, j \in 1..3 : i # j => w[i] # w[j]}

\* the wrong_choices a question on poem_data can end up with
WrongChoices(poem_data, quiz_type) ==
    IF quiz_type = "POEM_TO_AUTHOR"
    THEN DrawAuthors(poem_data.author)
    ELSE DrawWrong(quiz_type, CorrectOf(poem_data, quiz_type), OtherPoems(poem_data), <<>>)

\* random.shuffle(choices): every arrangement of the list
Shuffle(choices) ==
    {[i \in 1..Len(choices) |-> choices[f[i]]] : f \in Permutations(1..Len(choices))}

\* choices.index(correct), 0-based: the first position that holds it
IndexOf(choices, correct) ==
    (CHOOSE i \in 1..Len(choices) :
        choices[i] = correct /\ \A j \in 1..(i - 1) : choices[j] # correct) - 1

\* the QuizQuestion built from poem_data once wrong_choices are drawn and the
\* list is shuffled into choices
MakeQuestion(poem_data, quiz_type, difficulty, choices) ==
    [ poem_number          |-> PoemNumber(poem_data),
      quiz_type            |-> quiz_type,
      choices              |-> choices,
      correct_answer       |-> CorrectOf(poem_data, quiz_type),
      correct_answer_index |-> IndexOf(choices, CorrectOf(poem_data, quiz_type)),
      difficulty           |-> difficulty ]

\* every question generate_question can return on poem_data
Questions(poem_data, quiz_type, difficulty) ==
    { MakeQuestion(poem_data, quiz_type, difficulty, choices) :
        choices \in UNION { Shuffle(Append(w, CorrectOf(poem_data, quiz_type)))
                            : w \in WrongChoices(poem_data, quiz_type) } }

-----------------------------------------------------------------------------
(* quiz_generator.py: the generator's operations *)

\* available_poems with the used-question filter left out
AvailablePoemsIgnoringUsed(quiz_type, difficulty, exclude_numbers) ==
    {p \in DifficultyPoems(difficulty) : PoemNumber(p) \notin exclude_numbers}

\* available_poems with the exclude_numbers filter left out
AvailablePoemsIgnoringExcluded(quiz_type, difficulty, exclude_numbers) ==
    {p \in DifficultyPoems(difficulty) :
        QuestionId(PoemNumber(p), quiz_type) \notin used_questions}

\* available_poems of generate_question, after the three filters
AvailablePoems(quiz_type, difficulty, exclude_numbers) ==
    {p \in DifficultyPoems(difficulty) :
        /\ PoemNumber(p) \notin exclude_numbers
        /\ QuestionId(PoemNumber(p), quiz_type) \notin used_questions}

\* The fields that identify a QuizQuestion. They do not depend on its choices:
\* they are read off the question built on the one-element list [correct].
Identity(q) == [poem_number |-> q.poem_number, quiz_type |-> q.quiz_type,
                difficulty |-> q.difficulty]

QuestionIdentities(poem_data, quiz_type, difficulty) ==
    { Identity(MakeQuestion(poem_data, quiz_type, difficulty,
                            <<CorrectOf(poem_data, quiz_type)>>)) }

\* generate_question(quiz_type, difficulty, exclude_numbers): its effect on the
\* generator and what it returns (question'). in_full tells what the
\* specification keeps of the QuizQuestion built on poem_data: all of it
\* (Questions) or what identifies it (QuestionIdentities).
generate_question(quiz_type, difficulty, exclude_numbers, in_full) ==
    LET available_poems == AvailablePoems(quiz_type, difficulty, exclude_numbers) IN
    IF available_poems = {}
    THEN /\ question' = None
         /\ UNCHANGED <<used_questions, returned, gen_hung>>
    ELSE \E poem_data \in available_poems :
            IF quiz_type = "POEM_TO_AUTHOR" /\ ~AuthorLoopEnds(poem_data.author)
            THEN /\ gen_hung' = TRUE
                 /\ UNCHANGED <<used_questions, returned, question>>
            ELSE /\ \E q \in (IF in_full
                             THEN Questions(poem_data, quiz_type, difficulty)
                             ELSE QuestionIdentities(poem_data, quiz_type, difficulty)) :
                        question' = Some(q)
                 /\ used_questions' =
                      used_questions \cup {QuestionId(PoemNumber(poem_data), quiz_type)}
                 /\ returned' = returned (+) SetToBag({<<PoemNumber(poem_data), quiz_type>>})
                 /\ UNCHANGED gen_hung

\* the poems generate_question(quiz_type, difficulty, []) can still draw
UnusedTierPoems(quiz_type, difficulty) == AvailablePoems(quiz_type, difficulty, {})

\* count and pool are history: the count argument of the call and, for a fixed
\* quiz_type, how many poems it could draw when it was made; done tells a
\* returned list from no call
GrqIdle ==
    [ active |-> FALSE, remaining |-> 0, quiz_type |-> None, difficulty |-> "beginner",
      exclude_numbers |-> {}, questions |-> <<>>, count |-> 0, pool |-> 0,
      done |-> FALSE ]

\* the exclude_numbers lists a caller passes
ExcludeLists == {e \in SUBSET {PoemNumber(p) : p \in poems_data} : Cardinality(e) <= MaxExclude}

\* the record kept of a generate_question call: its arguments
GenCall(quiz_type, difficulty, exclude_numbers) ==
    [ op |-> "generate_question", quiz_type |-> quiz_type, difficulty |-> difficulty,
      exclude_numbers |-> exclude_numbers ]

\* the record kept of any other call of the generator
OtherGenCall(op) == [op |-> op]

\* a caller's generate_question call, seen in full, on a generator with no
\* question used yet
FirstQuestion ==
    /\ ~gen_hung /\ ~grq.active
    /\ used_questions = {}
    /\ \E quiz_type \in QuizType, difficulty \in Difficulties, exclude_numbers \in ExcludeLists :
          /\ generate_question(quiz_type, difficulty, exclude_numbers, TRUE)
          /\ last_call' = GenCall(quiz_type, difficulty, exclude_numbers)
    /\ grq' = GrqIdle
    /\ UNCHANGED <<poems_data, val_vars, graded, mgr_vars, peer, partial_seen>>

\* a caller's generate_question call, the returned question seen by its identity
GenerateQuestion ==
    /\ ~gen_hung /\ ~grq.active
    /\ BagCardinality(returned) < MaxCalls
    /\ \E quiz_type \in QuizType, difficulty \in Difficulties, exclude_numbers \in ExcludeLists :
          /\ generate_question(quiz_type, difficulty, exclude_numbers, FALSE)
          /\ last_call' = GenCall(quiz_type, difficulty, exclude_numbers)
    /\ grq' = GrqIdle
    /\ UNCHANGED <<poems_data, val_vars, graded, mgr_vars, peer, partial_seen>>

\* reset_used_questions
ResetUsedQuestions ==
    /\ ~gen_hung /\ ~grq.active
    /\ used_questions' = {}
    /\ returned' = EmptyBag
    /\ question' = None
    /\ grq' = GrqIdle
    /\ last_call' = OtherGenCall("reset_used_questions")
    /\ UNCHANGED <<poems_data, gen_hung, val_vars, graded, mgr_vars, peer, partial_seen>>

\* get_random_questions(count, quiz_type, difficulty): entry, questions = [],
\* exclude_numbers = []
GetRandomQuestionsCall ==
    /\ ~gen_hung /\ ~grq.active
    /\ \E count \in 0..MaxCount, quiz_type \in {None} \cup {Some(t) : t \in QuizType},
          difficulty \in Difficulties :
          /\ BagCardinality(returned) + count <= MaxCalls
          /\ grq' = [ active |-> TRUE, remaining |-> count, quiz_type |-> quiz_type,
                      difficulty |-> difficulty, exclude_numbers |-> {},
                      questions |-> <<>>, count |-> count,
                      pool |-> IF quiz_type = None THEN 0
                               ELSE Cardinality(UnusedTierPoems(quiz_type[1], difficulty)),
                      done |-> FALSE ]
    /\ question' = None
    /\ last_call' = OtherGenCall("get_random_questions")
    /\ UNCHANGED <<poems_data, used_questions, returned, gen_hung, val_vars, graded,
                   mgr_vars, peer, partial_seen>>

\* one pass of "for _ in range(count)"; a None from generate_question breaks
GetRandomQuestionsIterate ==
    /\ ~gen_hung /\ grq.active /\ grq.remaining > 0
    /\ \E current_type \in (IF grq.quiz_type = None THEN QuizType ELSE Range(grq.quiz_type)) :
          /\ generate_question(current_type, grq.difficulty, grq.exclude_numbers, FALSE)
          /\ last_call' = GenCall(current_type, grq.difficulty, grq.exclude_numbers)
    /\ grq' = IF gen_hung' THEN grq
              ELSE IF question' # None
              THEN [grq EXCEPT !.remaining = @ - 1,
                               !.exclude_numbers = @ \cup {question'[1].poem_number},
                               !.questions = Append(@, question'[1])]
              ELSE [grq EXCEPT !.remaining = 0]
    /\ UNCHANGED <<poems_data, val_vars, graded, mgr_vars, peer, partial_seen>>

\* return questions: the locals are gone, the list is the caller's
GetRandomQuestionsReturn ==
    /\ ~gen_hung /\ grq.active /\ grq.remaining = 0
    /\ grq' = [grq EXCEPT !.active = FALSE, !.exclude_numbers = {}, !.done = TRUE]
    /\ question' = None
    /\ last_call' = OtherGenCall("get_random_questions")
    /\ UNCHANGED <<poems_data, used_questions, returned, gen_hung, val_vars, graded,
                   mgr_vars, peer, partial_seen>>

-----------------------------------------------------------------------------
(* answer_validator.py: AnswerResult and QuizStatistics *)

AnswerStatus == {"CORRECT", "INCORRECT", "SKIPPED", "TIMEOUT", "HINT_USED"}

\* AnswerResult.is_correct
is_correct(r) == r.status \in {"CORRECT", "HINT_USED"}

Min(a, b) == IF a <= b THEN a ELSE b

\* points without the time bonus
pointsFlat(r) ==
    IF r.status = "CORRECT" THEN 100 ELSE IF r.status = "HINT_USED" THEN 70 ELSE 0

\* AnswerResult.points, in hundredths; time_taken is in tenths of a second, so
\* (5.0 - time_taken) * 0.1 points is (50 - time_taken) hundredths
points(r) ==
    IF r.status = "CORRECT"
    THEN IF r.time_taken <= 50
         THEN Min(100 + (50 - r.time_taken), 150)
         ELSE 100
    ELSE IF r.status = "HINT_USED"
    THEN 70
    ELSE 0

\* QuizStatistics()
NewStatistics ==
    [ total_questions |-> 0, correct_answers |-> 0, incorrect_answers |-> 0,
      skipped_answers |-> 0, timeout_answers |-> 0, hint_used_count |-> 0,
      total_time |-> 0, total_points |-> 0, answer_results |-> <<>> ]

\* QuizStatistics.accuracy = correct_answers / total_questions * 100, held as the
\* fraction num / den. For every total up to 200 the float the code computes lies
\* on the same side of each grade threshold as this fraction.
accuracy(stats) ==
    IF stats.total_questions = 0
    THEN [num |-> 0, den |-> 1]
    ELSE [num |-> stats.correct_answers * 100, den |-> stats.total_questions]

\* self.accuracy >= percent
AccuracyAtLeast(stats, percent) ==
    accuracy(stats).num >= percent * accuracy(stats).den

\* _calculate_grade with "accuracy > 95" for its first test
calculate_gradeStrict(stats) ==
    IF ~AccuracyAtLeast(stats, 95) /\ AccuracyAtLeast(stats, 90) THEN "A+"
    ELSE IF accuracy(stats).num = 95 * accuracy(stats).den THEN "A+"
    ELSE IF AccuracyAtLeast(stats, 95) THEN "S"
    ELSE IF AccuracyAtLeast(stats, 85) THEN "A"
    ELSE IF AccuracyAtLeast(stats, 80) THEN "B+"
    ELSE IF AccuracyAtLeast(stats, 75) THEN "B"
    ELSE IF AccuracyAtLeast(stats, 70) THEN "C+"
    ELSE IF AccuracyAtLeast(stats, 65) THEN "C"
    ELSE IF AccuracyAtLeast(stats, 60) THEN "D"
    ELSE "F"

\* QuizStatistics._calculate_grade
calculate_grade(stats) ==
    IF AccuracyAtLeast(stats, 95) THEN "S"
    ELSE IF AccuracyAtLeast(stats, 90) THEN "A+"
    ELSE IF AccuracyAtLeast(stats, 85) THEN "A"
    ELSE IF AccuracyAtLeast(stats, 80) THEN "B+"
    ELSE IF AccuracyAtLeast(stats, 75) THEN "B"
    ELSE IF AccuracyAtLeast(stats, 70) THEN "C+"
    ELSE IF AccuracyAtLeast(stats, 65) THEN "C"
    ELSE IF AccuracyAtLeast(stats, 60) THEN "D"
    ELSE "F"

-----------------------------------------------------------------------------
(* answer_validator.py: judging one answer *)

\* the characters of the model's strings
LowerLetters == {"a", "b", "c", "d"}

UpperLetters == {"A", "B"}

\* re \w: letters, digits and "_"; the kana and kanji ranges of the pattern are
\* letters too. " " and "!" are not.
IsWordChar(c) == c \in LowerLetters \cup UpperLetters \cup {"_"}

\* str.lower on one character
LowerChar(c) == CASE c = "A" -> "a" [] c = "B" -> "b" [] OTHER -> c

\* _normalize_text: drop what is not a word character, lower-case; strip() finds
\* no blank left to strip
normalize_text(text) ==
    IF text = <<>>
    THEN <<>>
    ELSE LET kept == SelectSeq(text, IsWordChar) IN
         [i \in 1..Len(kept) |-> LowerChar(kept[i])]

\* _calculate_similarity, as the fraction num / den (0.0 is 0/1)
calculate_similarity(text1, text2) ==
    IF text1 = <<>> \/ text2 = <<>>
    THEN [num |-> 0, den |-> 1]
    ELSE LET longer  == IF Len(text1) >= Len(text2) THEN text1 ELSE text2
             shorter == IF Len(text1) >= Len(text2) THEN text2 ELSE text1
             common_chars ==
                 Cardinality({i \in 1..Len(shorter) : shorter[i] \in Range(longer)})
         IN  [num |-> common_chars, den |-> Len(longer)]

\* _compare_answers accepting a similarity above 0.9 only
compare_answersAbove(correct, user) ==
    IF correct = <<>> \/ user = <<>>
    THEN FALSE
    ELSE LET correct_normalized == normalize_text(correct)
             user_normalized    == normalize_text(user)
             similarity == calculate_similarity(correct_normalized, user_normalized)
         IN  \/ correct_normalized = user_normalized
             \/ 10 * similarity.num > 9 * similarity.den

\* _compare_answers
compare_answers(correct, user) ==
    IF correct = <<>> \/ user = <<>>
    THEN FALSE
    ELSE LET correct_normalized == normalize_text(correct)
             user_normalized    == normalize_text(user)
             similarity == calculate_similarity(correct_normalized, user_normalized)
         IN  \/ correct_normalized = user_normalized
             \/ 10 * similarity.num >= 9 * similarity.den

\* "if timeout_seconds": an Optional[float] is true when it is neither None nor 0
Truthy(timeout_seconds) == timeout_seconds # None /\ timeout_seconds[1] # 0

\* _determine_answer_status judging the text before the index
determine_answer_statusTextFirst(correct_answer, correct_index, user_answer, answer_index, hint_used, timeout_seconds, time_taken) ==
    IF Truthy(timeout_seconds) /\ time_taken >= timeout_seconds[1]
    THEN "TIMEOUT"
    ELSE IF user_answer = None /\ answer_index = None
    THEN "SKIPPED"
    ELSE LET judged_correct ==
                 IF user_answer # None
                 THEN compare_answers(correct_answer, user_answer[1])
                 ELSE answer_index[1] = correct_index
         IN  IF judged_correct
             THEN (IF hint_used THEN "HINT_USED" ELSE "CORRECT")
             ELSE "INCORRECT"

\* _determine_answer_status with "if not user_answer and answer_index is None"
\* for its skip test
determine_answer_statusEmptySkips(correct_answer, correct_index, user_answer, answer_index, hint_used, timeout_seconds, time_taken) ==
    IF Truthy(timeout_seconds) /\ time_taken >= timeout_seconds[1]
    THEN "TIMEOUT"
    ELSE IF user_answer \in {None, Some(<<>>)} /\ answer_index = None
    THEN "SKIPPED"
    ELSE LET judged_correct ==
                 IF answer_index # None
                 THEN answer_index[1] = correct_index
                 ELSE compare_answers(correct_answer, user_answer[1])
         IN  IF judged_correct
             THEN (IF hint_used THEN "HINT_USED" ELSE "CORRECT")
             ELSE "INCORRECT"

\* _determine_answer_status; user_answer, answer_index and timeout_seconds are
\* Optional
determine_answer_status(correct_answer, correct_index, user_answer, answer_index, hint_used, timeout_seconds, time_taken) ==
    IF Truthy(timeout_seconds) /\ time_taken >= timeout_seconds[1]
    THEN "TIMEOUT"
    ELSE IF user_answer = None /\ answer_index = None
    THEN "SKIPPED"
    ELSE LET judged_correct ==
                 IF answer_index # None
                 THEN answer_index[1] = correct_index
                 ELSE IF user_answer # None
                 THEN compare_answers(correct_answer, user_answer[1])
                 ELSE FALSE
         IN  IF judged_correct
             THEN (IF hint_used THEN "HINT_USED" ELSE "CORRECT")
             ELSE "INCORRECT"

\* the hint_used_count that _update_statistics adds for one result
HintIncrement(r) ==
    (IF r.status = "HINT_USED" THEN 1 ELSE 0) + (IF r.hint_used THEN 1 ELSE 0)

\* _update_statistics counting a hint-assisted correct answer as not correct
update_statisticsHintNotCorrect(stats, r) ==
    [ total_questions   |-> stats.total_questions + 1,
      total_time        |-> stats.total_time + r.time_taken,
      total_points      |-> stats.total_points + points(r),
      correct_answers   |-> stats.correct_answers
                              + (IF r.status = "CORRECT" THEN 1 ELSE 0),
      incorrect_answers |-> stats.incorrect_answers
                              + (IF r.status = "INCORRECT" THEN 1 ELSE 0),
      skipped_answers   |-> stats.skipped_answers
                              + (IF r.status = "SKIPPED" THEN 1 ELSE 0),
      timeout_answers   |-> stats.timeout_answers
                              + (IF r.status = "TIMEOUT" THEN 1 ELSE 0),
      hint_used_count   |-> stats.hint_used_count + HintIncrement(r),
      answer_results    |-> Append(stats.answer_results, r) ]

\* _update_statistics
update_statistics(stats, r) ==
    [ total_questions   |-> stats.total_questions + 1,
      total_time        |-> stats.total_time + r.time_taken,
      total_points      |-> stats.total_points + points(r),
      correct_answers   |-> stats.correct_answers
                              + (IF r.status \in {"CORRECT", "HINT_USED"} THEN 1 ELSE 0),
      incorrect_answers |-> stats.incorrect_answers
                              + (IF r.status = "INCORRECT" THEN 1 ELSE 0),
      skipped_answers   |-> stats.skipped_answers
                              + (IF r.status = "SKIPPED" THEN 1 ELSE 0),
      timeout_answers   |-> stats.timeout_answers
                              + (IF r.status = "TIMEOUT" THEN 1 ELSE 0),
      hint_used_count   |-> stats.hint_used_count + HintIncrement(r),
      answer_results    |-> Append(stats.answer_results, r) ]

\* the arguments of one check_answer call
Call(poem_number, correct_answer, correct_index, user_answer, answer_index, time_taken, hint_used, timeout_seconds) ==
    [ poem_number |-> poem_number, correct_answer |-> correct_answer,
      correct_index |-> correct_index, user_answer |-> user_answer,
      answer_index |-> answer_index, time_taken |-> time_taken,
      hint_used |-> hint_used, timeout_seconds |-> timeout_seconds ]

\* check_answer(...): the try branch. question_id, question_text and timestamp
\* are carried into the result unread and are left out.
check_answer(c) ==
    LET status == determine_answer_status(c.correct_answer, c.correct_index,
                      c.user_answer, c.answer_index, c.hint_used, c.timeout_seconds,
                      c.time_taken)
        r == [ poem_number |-> c.poem_number, correct_answer |-> c.correct_answer,
               user_answer |-> c.user_answer, answer_index |-> c.answer_index,
               correct_index |-> c.correct_index, status |-> status,
               time_taken |-> c.time_taken, hint_used |-> c.hint_used ]
    IN  /\ statistics' = update_statistics(statistics, r)
        /\ result' = Some(r)
        /\ calls' = Append(calls, c)

\* an except branch that judges the index again
FallbackResultJudged(c) ==
    [ poem_number |-> c.poem_number, correct_answer |-> c.correct_answer,
      user_answer |-> c.user_answer, answer_index |-> c.answer_index,
      correct_index |-> c.correct_index,
      status |-> IF c.answer_index = Some(c.correct_index) THEN "CORRECT" ELSE "INCORRECT",
      time_taken |-> c.time_taken, hint_used |-> c.hint_used ]

\* what the except branch of check_answer returns
FallbackResult(c) ==
    [ poem_number |-> c.poem_number, correct_answer |-> c.correct_answer,
      user_answer |-> c.user_answer, answer_index |-> c.answer_index,
      correct_index |-> c.correct_index, status |-> "INCORRECT",
      time_taken |-> c.time_taken, hint_used |-> c.hint_used ]

\* _determine_answer_status raises: "time_taken >= timeout_seconds" with a
\* time_taken of None (c.time_taken is Optional here) is a TypeError; a falsy
\* timeout_seconds short-circuits the comparison
DetermineRaises(c) == Truthy(c.timeout_seconds) /\ c.time_taken = None

\* _update_statistics raises: "total_time += result.time_taken" with None
UpdateRaises(c) == c.time_taken = None

\* check_answer(...), try and except, on a call whose time_taken is Optional.
\* A fault in _determine_answer_status leaves the statistics alone; a fault in
\* _update_statistics comes after "total_questions += 1".
check_answer_guarded(c) ==
    IF DetermineRaises(c)
    THEN /\ result' = Some(FallbackResult(c))
         /\ calls' = Append(calls, c)
         /\ UNCHANGED statistics
    ELSE IF UpdateRaises(c)
    THEN /\ result' = Some(FallbackResult(c))
         /\ calls' = Append(calls, c)
         /\ statistics' = [statistics EXCEPT !.total_questions = @ + 1]
    ELSE LET typed == [c EXCEPT !.time_taken = c.time_taken[1]]
             status == determine_answer_status(typed.correct_answer, typed.correct_index,
                           typed.user_answer, typed.answer_index, typed.hint_used,
                           typed.timeout_seconds, typed.time_taken)
             r == [FallbackResult(typed) EXCEPT !.status = status]
         IN  /\ statistics' = update_statistics(statistics, r)
             /\ result' = Some(r)
             /\ calls' = Append(calls, c)

\* reset_statistics
ResetStatistics ==
    /\ statistics' = NewStatistics
    /\ result' = None
    /\ calls' = <<>>
    /\ UNCHANGED <<gen_vars, graded, app_vars>>

\* The calls judged one at a time: the correct answer "ab" at index 0 or 2; no
\* text, the empty text, the same text, the same up to case and punctuation, an
\* anagram, a prefix, another text; no index or any of the four; answer times
\* 0, 3.5, 5.0 and 10.0 s; no timeout, or one of 0, 5.0 or 30.0 s.
JudgedCalls ==
    { Call(1, <<"a", "b">>, correct_index, user_answer, answer_index, time_taken,
           hint_used, timeout_seconds) :
        correct_index \in {0, 2},
        user_answer \in {None} \cup { Some(t) : t \in { <<>>, <<"a", "b">>,
                             <<"A", " ", "b", "!">>, <<"b", "a">>, <<"a">>, <<"c", "d">> } },
        answer_index \in {None} \cup {Some(i) : i \in 0..3},
        time_taken \in {0, 35, 50, 100},
        hint_used \in BOOLEAN,
        timeout_seconds \in {None, Some(0), Some(50), Some(300)} }

\* check_answer on a validator that has judged nothing since its last reset
FirstAnswer ==
    /\ statistics.total_questions = 0
    /\ \E c \in JudgedCalls : check_answer(c)
    /\ UNCHANGED <<gen_vars, graded, app_vars>>

\* a correct answer of ten characters
TenLetters == <<"a", "b", "c", "d", "a", "b", "c", "d", "a", "b">>

\* The calls judged by their text alone (no index): no correct answer, "ab", one
\* of punctuation only, one of ten characters; answers that are the same text,
\* the same up to case and punctuation, an anagram, a prefix, another text,
\* punctuation or a blank only, the first 8 and the first 9 characters of the
\* ten, the ten with the last one replaced, and the ten followed by 1 or 2 more;
\* answered after 2.0 or 8.0 s, with no timeout or one of 5.0 s.
TextCalls ==
    { Call(1, correct_answer, 0, Some(user_answer), None, time_taken, hint_used,
           timeout_seconds) :
        correct_answer \in { <<>>, <<"a", "b">>, <<"!", "!">>, TenLetters },
        user_answer \in { <<"a", "b">>, <<"A", " ", "b", "!">>, <<"b", "a">>, <<"a">>,
                          <<"c", "d">>, <<"!">>, <<" ">>, TenLetters,
                          SubSeq(TenLetters, 1, 8), SubSeq(TenLetters, 1, 9),
                          SubSeq(TenLetters, 1, 9) \o <<"_">>,
                          TenLetters \o <<"a">>, TenLetters \o <<"a", "_">> },
        time_taken \in {20, 80},
        hint_used \in BOOLEAN,
        timeout_seconds \in {None, Some(50)} }

\* check_answer without an index, on a validator that has judged nothing since
\* its last reset
TextAnswer ==
    /\ statistics.total_questions = 0
    /\ \E c \in TextCalls : check_answer(c)
    /\ UNCHANGED <<gen_vars, graded, app_vars>>

\* The calls a quiz screen makes, for a question whose choice 0 ("ab") is the
\* correct one: choice 0 or 1 answered after 2.0 s, or a skip (no text, no index),
\* with or without the hint flag and with no timeout; and an answer and a skip
\* that come 8.0 s into a 5.0 s timeout.
ChoiceText(i) == IF i = 0 THEN <<"a", "b">> ELSE <<"c", "d">>

SessionCalls ==
    { Call(1, ChoiceText(0), 0, Some(ChoiceText(i)), Some(i), 20, hint_used, None) :
        i \in {0, 1}, hint_used \in BOOLEAN }
    \cup { Call(1, ChoiceText(0), 0, None, None, 20, hint_used, None) :
        hint_used \in BOOLEAN }
    \cup { Call(1, ChoiceText(0), 0, Some(ChoiceText(0)), Some(0), 80, FALSE, Some(50)),
           Call(1, ChoiceText(0), 0, None, None, 80, FALSE, Some(50)) }

\* check_answer, one of a sequence of calls
CheckAnswer ==
    /\ statistics.total_questions < MaxAnswers
    /\ \E c \in SessionCalls : check_answer(c)
    /\ UNCHANGED <<gen_vars, graded, app_vars>>

\* the calls a caller makes whose time_taken may be None
GuardedCalls ==
    { Call(1, <<"a", "b">>, correct_index, user_answer, answer_index, time_taken,
           hint_used, timeout_seconds) :
        correct_index \in {0, 2},
        user_answer \in {None, Some(<<"a", "b">>), Some(<<"c", "d">>)},
        answer_index \in {None} \cup {Some(i) : i \in 0..3},
        time_taken \in {None, Some(0), Some(35), Some(100)},
        hint_used \in BOOLEAN,
        timeout_seconds \in {None, Some(0), Some(50)} }

\* one check_answer call on a fresh validator, time_taken None or a number
GuardedAnswer ==
    /\ statistics = NewStatistics
    /\ calls = <<>>
    /\ \E c \in GuardedCalls : check_answer_guarded(c)
    /\ UNCHANGED <<gen_vars, graded, app_vars>>

\* _calculate_grade on a QuizStatistics whose counters are total_questions and
\* correct_answers
Grade ==
    /\ \E total_questions \in 0..MaxTotal :
         \E correct_answers \in 0..total_questions :
            LET stats == [NewStatistics EXCEPT !.total_questions = total_questions,
                                               !.correct_answers = correct_answers]
            IN  graded' = Some([ total_questions |-> total_questions,
                                 correct_answers |-> correct_answers,
                                 grade |-> calculate_grade(stats) ])
    /\ UNCHANGED <<gen_vars, val_vars, app_vars>>

-----------------------------------------------------------------------------
(* session_manager.py: SessionManager over st.session_state *)

ScreenType == {"start", "quiz", "result", "settings", "review"}

QuizMode == {"upper_to_lower", "lower_to_upper", "author_to_poem", "poem_to_author"}

\* QuizSettings: the fields the callers write
QuizSettings(mode, total_questions) ==
    [ mode |-> mode, total_questions |-> total_questions ]

\* QuizSettings()
DefaultSettings == QuizSettings("upper_to_lower", 10)

\* QuizSession(session_id=...); start_time is left out
NewQuizSession(session_id) ==
    [ session_id |-> session_id, settings |-> DefaultSettings, current_question |-> 0,
      score |-> 0, results |-> <<>>, wrong_answers |-> <<>>, question_pool |-> <<>>,
      is_completed |-> FALSE ]

\* the keys of st.session_state that SessionManager, ScreenManager and the quiz
\* screen (current_quiz_question) use, after initialize_session; confirmation_pending and confirmation_result are None
\* when the key is absent, quiz_interruption_confirmed is FALSE when it is
NewSessionState ==
    [ current_screen |-> "start", current_poem |-> None, choices |-> <<>>,
      answered |-> FALSE, user_answer |-> None, show_result |-> FALSE,
      current_quiz_question |-> None,
      confirmation_pending |-> None, confirmation_result |-> None,
      quiz_interruption_confirmed |-> FALSE ]

\* the state the handlers work on, as one record
State ==
    [ quiz_session |-> quiz_session, session_state |-> session_state,
      session_manager |-> session_manager, screen_manager |-> screen_manager ]

\* the state after a handler is T
Becomes(T) ==
    /\ quiz_session' = T.quiz_session
    /\ session_state' = T.session_state
    /\ session_manager' = T.session_manager
    /\ screen_manager' = T.screen_manager

\* SessionManager.get_current_screen
sm_get_current_screen(S) ==
    IF S.session_state.current_screen \in ScreenType
    THEN S.session_state.current_screen
    ELSE "start"

\* SessionManager.set_current_screen
set_current_screen(S, screen) ==
    [S EXCEPT !.session_state.current_screen = screen]

\* _reset_question_state
reset_question_state(S) ==
    [S EXCEPT !.session_state.current_poem = None,
              !.session_state.choices = <<>>,
              !.session_state.answered = FALSE,
              !.session_state.user_answer = None,
              !.session_state.show_result = FALSE]

\* update_quiz_settings(mode=..., total_questions=...)
update_quiz_settings(S, mode, total_questions) ==
    [S EXCEPT !.quiz_session.settings.mode = mode,
              !.quiz_session.settings.total_questions = total_questions]

\* start_new_quiz that falls back to the default settings when none are given
start_new_quizDefaulting(S, settings) ==
    reset_question_state(
        [S EXCEPT !.quiz_session.settings = IF settings # None THEN settings[1] ELSE DefaultSettings,
                  !.quiz_session.current_question = 0,
                  !.quiz_session.score = 0,
                  !.quiz_session.results = <<>>,
                  !.quiz_session.wrong_answers = <<>>,
                  !.quiz_session.question_pool = <<>>,
                  !.quiz_session.is_completed = FALSE])

\* start_new_quiz(settings); a QuizSettings object is truthy, so "if settings"
\* is "settings is not None"
start_new_quiz(S, settings) ==
    LET T == IF settings # None
             THEN [S EXCEPT !.quiz_session.settings = settings[1]]
             ELSE S
    IN  reset_question_state(
            [T EXCEPT !.quiz_session.current_question = 0,
                      !.quiz_session.score = 0,
                      !.quiz_session.results = <<>>,
                      !.quiz_session.wrong_answers = <<>>,
                      !.quiz_session.question_pool = <<>>,
                      !.quiz_session.is_completed = FALSE])

\* _generate_session_id: a new identifier, here the next number
generate_session_id(S) == S.session_manager.session_id + 1

\* reset_quiz
reset_quiz(S) ==
    LET id == generate_session_id(S)
    IN  reset_question_state(set_current_screen(
            [S EXCEPT !.session_manager.session_id = id,
                      !.quiz_session = NewQuizSession(id)],
            "start"))

\* record_answer(poem_number, question, correct_answer, user_answer); texts are
\* Optional, and "if user_answer" is false for None and for the empty text
record_answer(S, poem_number, correct_answer, user_answer) ==
    LET is_right == IF user_answer # None /\ user_answer[1] # <<>>
                    THEN user_answer[1] = correct_answer
                    ELSE FALSE
        r == [ poem_number |-> poem_number, correct_answer |-> correct_answer,
               user_answer |-> user_answer, is_correct |-> is_right ]
    IN  [S EXCEPT !.quiz_session.results = Append(@, r),
                  !.quiz_session.score = IF is_right THEN @ + 1 ELSE @,
                  !.quiz_session.wrong_answers =
                        IF is_right THEN @ ELSE Append(@, poem_number)]

\* advance_question that completes only past the configured count
advance_questionStrict(S) ==
    LET T == [S EXCEPT !.quiz_session.current_question = @ + 1]
    IN  IF T.quiz_session.current_question > T.quiz_session.settings.total_questions
        THEN set_current_screen([T EXCEPT !.quiz_session.is_completed = TRUE], "result")
        ELSE reset_question_state(T)

\* advance_question
advance_question(S) ==
    LET T == [S EXCEPT !.quiz_session.current_question = @ + 1]
    IN  IF T.quiz_session.current_question >= T.quiz_session.settings.total_questions
        THEN set_current_screen([T EXCEPT !.quiz_session.is_completed = TRUE], "result")
        ELSE reset_question_state(T)

\* validate_session_state: the issues it reports, on an initialized session
\* that has a quiz session
validate_session_state(S) ==
    (IF S.quiz_session.current_question < 0 THEN {"current_question"} ELSE {})
    \cup (IF S.quiz_session.score < 0 THEN {"score"} ELSE {})
    \cup (IF Len(S.quiz_session.results) # S.quiz_session.current_question
          THEN {"results"} ELSE {})

-----------------------------------------------------------------------------
(* screen_manager.py: ScreenManager and QuizScreenManager *)

\* a dict with no key
EmptyMap == [k \in {} |-> k]

\* d[key] = value
MapSet(d, key, value) == [k \in DOMAIN d \cup {key} |-> IF k = key THEN value ELSE d[k]]

\* del d[key]
MapDel(d, key) == [k \in DOMAIN d \ {key} |-> d[k]]

\* NavigationRule(...); condition and on_transition are Optional names of
\* callables
NavigationRule(from_screen, to_screen, condition, on_transition, confirmation_required, confirmation_message) ==
    [ from_screen |-> from_screen, to_screen |-> to_screen, condition |-> condition,
      on_transition |-> on_transition, confirmation_required |-> confirmation_required,
      confirmation_message |-> confirmation_message ]

\* _setup_quiz_navigation_rules
QuizRules ==
    << NavigationRule("start", "quiz", None, None, FALSE, ""),
       NavigationRule("quiz", "result", None, None, FALSE, ""),
       NavigationRule("quiz", "start", None, None, TRUE, "interrupt the quiz?") >>

\* rules a caller adds with add_navigation_rule, in the order it adds them: one
\* more transition that needs a confirmation, one with a condition on staying on
\* the start screen, one with a condition and a hook, and a second rule for the
\* transition of the third, which needs a confirmation
ExtraRules ==
    << NavigationRule("quiz", "settings", None, None, TRUE, "leave the quiz?"),
       NavigationRule("start", "start", Some("condition"), None, FALSE, ""),
       NavigationRule("result", "review", Some("condition"), Some("hook"), FALSE, ""),
       NavigationRule("result", "review", None, None, TRUE, "review the answers?") >>

\* QuizScreenManager() on a new st.session_state
NewScreenManager ==
    [ current_screen |-> None, screen_states |-> EmptyMap, navigation_history |-> <<>>,
      transition_in_progress |-> FALSE, cache |-> EmptyMap, navigation_rules |-> QuizRules,
      screen_stack |-> <<>> ]

\* add_navigation_rule
add_navigation_rule(S, rule) ==
    [S EXCEPT !.screen_manager.navigation_rules = Append(@, rule)]

\* mark_screen_dirty(screen_id)
mark_screen_dirty(S, screen_id) ==
    IF screen_id \in DOMAIN S.screen_manager.screen_states
    THEN [S EXCEPT !.screen_manager.screen_states[screen_id].is_dirty = TRUE]
    ELSE S

\* a save that leaves the dirty flag as it is
save_current_screen_stateKeepingDirty(S, screen_id) == S

\* _save_current_screen_state
save_current_screen_state(S, screen_id) ==
    IF screen_id \in DOMAIN S.screen_manager.screen_states
    THEN [S EXCEPT !.screen_manager.screen_states[screen_id].is_dirty = FALSE]
    ELSE S

\* reset_screen_state(screen_id)
reset_screen_state(S, screen_id) ==
    [S EXCEPT !.screen_manager.screen_states = MapDel(@, screen_id)]

\* clear_cache()
clear_cache(S) == [S EXCEPT !.screen_manager.cache = EmptyMap]

\* a Python value passed as data: the name of its type and its items, each a
\* key and a value; the items of a list or of a tuple have no key
DataValue(type, items) == [type |-> type, items |-> items]

Item(key, value) == [key |-> key, value |-> value]

\* data=None
NoData == DataValue("NoneType", <<>>)

\* the values callers pass as data: {'a': 1}, {'a': 2}, [1] and (1,)
DataValues ==
    { DataValue("dict", <<Item("a", 1)>>), DataValue("dict", <<Item("a", 2)>>),
      DataValue("list", <<Item("", 1)>>), DataValue("tuple", <<Item("", 1)>>) }

\* json.dumps(data, sort_keys=True, default=str): null, an object, or an array
\* for a list and for a tuple alike
json_dumps(data) ==
    [ kind |-> CASE data.type = "NoneType" -> "null"
                 [] data.type = "dict" -> "object"
                 [] OTHER -> "array",
      items |-> data.items ]

\* _hash_data: the MD5 digest of the JSON text, one digest for each text
hash_data(data) == json_dumps(data)

\* _generate_cache_key
generate_cache_key(S, component_id, data) ==
    <<S.screen_manager.current_screen, component_id, data.type>>

\* should_update(component_id, data, strategy) with strategy FULL or PARTIAL:
\* [state, returned]
should_update(S, component_id, data, strategy) ==
    IF strategy = "full"
    THEN [state |-> S, returned |-> TRUE]
    ELSE LET cache == S.screen_manager.cache
             cache_key == generate_cache_key(S, component_id, data)
         IN  IF /\ strategy = "partial"
                /\ cache_key \in DOMAIN cache
                /\ cache[cache_key].hash = hash_data(data)
             THEN [state |-> S, returned |-> FALSE]
             ELSE [ state |-> [S EXCEPT !.screen_manager.cache =
                                   MapSet(@, cache_key, [hash |-> hash_data(data)])],
                    returned |-> TRUE ]

\* _show_confirmation(message): [result, state]
show_confirmation(S, message) ==
    IF S.session_state.confirmation_pending = None
    THEN [ result |-> FALSE,
           state |-> [S EXCEPT !.session_state.confirmation_pending = Some(message)] ]
    ELSE [ result |-> IF S.session_state.confirmation_result = None
                      THEN FALSE
                      ELSE S.session_state.confirmation_result[1],
           state |-> [S EXCEPT !.session_state.confirmation_pending = None,
                               !.session_state.confirmation_result = None] ]

\* the loop of _check_navigation_rules from the i-th rule on: [ok, state, hooks],
\* hooks being the on_transition callables run so far. cond_ok is what a rule's
\* condition() returns in this call.
RECURSIVE CheckRulesFrom(_, _, _, _, _, _)
CheckRulesFrom(S, i, from_screen, to_screen, cond_ok, hooks) ==
    IF i > Len(S.screen_manager.navigation_rules)
    THEN [ok |-> TRUE, state |-> S, hooks |-> hooks]
    ELSE LET rule == S.screen_manager.navigation_rules[i]
         IN  IF Some(rule.from_screen) # from_screen \/ rule.to_screen # to_screen
             THEN CheckRulesFrom(S, i + 1, from_screen, to_screen, cond_ok, hooks)
             ELSE IF rule.condition # None /\ ~cond_ok
             THEN [ok |-> FALSE, state |-> S, hooks |-> hooks]
             ELSE LET c == IF rule.confirmation_required
                           THEN show_confirmation(S, rule.confirmation_message)
                           ELSE [result |-> TRUE, state |-> S]
                  IN  IF ~c.result
                      THEN [ok |-> FALSE, state |-> c.state, hooks |-> hooks]
                      ELSE CheckRulesFrom(c.state, i + 1, from_screen, to_screen, cond_ok,
                               IF rule.on_transition # None
                               THEN Append(hooks, rule.on_transition[1])
                               ELSE hooks)

\* _check_navigation_rules(from_screen, to_screen); from_screen is Optional
check_navigation_rules(S, from_screen, to_screen, cond_ok) ==
    CheckRulesFrom(S, 1, from_screen, to_screen, cond_ok, <<>>)

\* the history keeps its last max_history entries, the stack its last max_stack
max_history == 50
max_stack == 10

\* the last n elements of a list
LastN(list, n) ==
    IF Len(list) > n THEN SubSeq(list, Len(list) - n + 1, Len(list)) ELSE list

\* _add_to_history keeping the oldest max_history entries
add_to_historyKeepingOldest(S, from_screen, to_screen) ==
    [S EXCEPT !.screen_manager.navigation_history =
                    IF Len(@) < max_history
                    THEN Append(@, [from |-> from_screen, to |-> to_screen])
                    ELSE @]

\* _add_to_history
add_to_history(S, from_screen, to_screen) ==
    [S EXCEPT !.screen_manager.navigation_history =
                    LastN(Append(@, [from |-> from_screen, to |-> to_screen]), max_history)]

\* list.remove(x): the list without its first x
RECURSIVE RemoveFirst(_, _)
RemoveFirst(list, x) ==
    IF list = <<>> THEN <<>>
    ELSE IF Head(list) = x THEN Tail(list)
    ELSE <<Head(list)>> \o RemoveFirst(Tail(list), x)

\* _update_screen_stack
update_screen_stack(S, screen_id) ==
    [S EXCEPT !.screen_manager.screen_stack =
                    LastN(Append(IF screen_id \in Range(@) THEN RemoveFirst(@, screen_id) ELSE @,
                                 screen_id), max_stack)]

\* a rejection that has logged the request in the history first
RejectedAfterLogging(S) ==
    [ state |-> add_to_history(S, S.screen_manager.current_screen, "start"),
      returned |-> FALSE, inner |-> None, hooks |-> <<>> ]

\* a rejection that has saved the current screen's state first
RejectedAfterSaving(S) ==
    [ state |-> IF S.screen_manager.current_screen # None
                THEN save_current_screen_state(S, S.screen_manager.current_screen[1])
                ELSE S,
      returned |-> FALSE, inner |-> None, hooks |-> <<>> ]

\* what a navigate_to call that returns False at its first two tests gives
Rejected(S) == [state |-> S, returned |-> FALSE, inner |-> None, hooks |-> <<>>]

\* a registered transition callback: on the 'before' or the 'after' event it
\* calls navigate_home() when home_first, and then navigate_to(target)
Callback(event, home_first, target) ==
    [event |-> event, home_first |-> home_first, target |-> target]

\* navigate_to(target_screen, data, transition_type, force): [state, returned,
\* inner, hooks]. callback is Optional: a registered callback that runs while
\* this transition is in progress; inner tells what the callback's non-forced
\* navigate_to returned and whether it changed nothing. The 'finally' clause of
\* every call, the callback's included, sets transition_in_progress to False.
RECURSIVE navigate_to(_, _, _, _, _, _, _)
navigate_to(S, target_screen, data, transition_type, force, cond_ok, callback) ==
    LET current_screen == S.screen_manager.current_screen
    IN  IF current_screen = Some(target_screen) /\ ~force
        THEN Rejected(S)
        ELSE IF S.screen_manager.transition_in_progress /\ ~force
        THEN Rejected(S)
        ELSE LET chk == check_navigation_rules(S, current_screen, target_screen, cond_ok)
             IN  IF ~chk.ok
                 THEN [ state |-> chk.state, returned |-> FALSE, inner |-> None,
                        hooks |-> chk.hooks ]
                 ELSE LET started == [chk.state EXCEPT
                                         !.screen_manager.transition_in_progress = TRUE]
                          Runs(event) == callback # None /\ callback[1].event = event
                          AtHome(T) == IF callback[1].home_first
                                       THEN navigate_to(T, "start", {}, "none", TRUE,
                                                        cond_ok, None).state
                                       ELSE T
                          Called(T) == navigate_to(AtHome(T), callback[1].target, {}, "none",
                                                   FALSE, cond_ok, None)
                          before_done == IF Runs("before") THEN Called(started).state
                                         ELSE started
                          saved == IF current_screen # None
                                   THEN save_current_screen_state(before_done, current_screen[1])
                                   ELSE before_done
                          new_state == [ screen_id |-> target_screen,
                                         previous_screen |-> current_screen,
                                         data |-> data,
                                         transition_type |-> transition_type,
                                         is_dirty |-> FALSE ]
                          moved == [saved EXCEPT
                                       !.screen_manager.screen_states =
                                            MapSet(@, target_screen, new_state),
                                       !.screen_manager.current_screen = Some(target_screen)]
                          done == update_screen_stack(
                                      add_to_history(moved, current_screen, target_screen),
                                      target_screen)
                          after_done == IF Runs("after") THEN Called(done).state ELSE done
                          at_call == IF Runs("before") THEN started ELSE done
                      IN  [ state |-> [after_done EXCEPT
                                          !.screen_manager.transition_in_progress = FALSE],
                            returned |-> TRUE,
                            inner |-> IF callback = None
                                      THEN None
                                      ELSE Some([ target |-> callback[1].target,
                                                  returned |-> Called(at_call).returned,
                                                  unchanged |-> Called(at_call).state
                                                                    = AtHome(at_call) ]),
                            hooks |-> chk.hooks ]

\* navigate_home
navigate_home(S, cond_ok) == navigate_to(S, "start", {}, "none", TRUE, cond_ok, None)

\* restart_quiz
restart_quiz(S, cond_ok) ==
    navigate_home(
        clear_cache(reset_screen_state(reset_screen_state(reset_quiz(S), "quiz"), "result")),
        cond_ok)

\* complete_quiz: [state, returned, raised]. Reading quiz_session.progress raises
\* AttributeError when the QuizSession has no such attribute, before anything is
\* written.
complete_quiz(S, cond_ok) ==
    IF "progress" \notin DOMAIN S.quiz_session
    THEN [state |-> S, returned |-> FALSE, raised |-> TRUE]
    ELSE LET T == [S EXCEPT !.quiz_session.progress.is_completed = TRUE]
             result_data == { <<"completed_at", "now">>,
                              <<"total_questions", T.quiz_session.settings.total_questions>>,
                              <<"correct_answers", T.quiz_session.progress.correct_answers>> }
             nav == navigate_to(T, "result", result_data, "zoom", FALSE, cond_ok, None)
         IN  [state |-> nav.state, returned |-> nav.returned, raised |-> FALSE]

\* handle_quiz_interruption: [state, returned, rerun]. button is what the two
\* st.button calls of the first branch give: "yes", "no" or "none"; "yes" sets
\* the flag and leaves through st.rerun().
handle_quiz_interruption(S, button, cond_ok) ==
    IF ~S.session_state.quiz_interruption_confirmed
    THEN IF button = "yes"
         THEN [ state |-> [S EXCEPT !.session_state.quiz_interruption_confirmed = TRUE],
                returned |-> FALSE, rerun |-> TRUE ]
         ELSE [state |-> S, returned |-> FALSE, rerun |-> FALSE]
    ELSE LET nav == restart_quiz(
                        [S EXCEPT !.session_state.quiz_interruption_confirmed = FALSE],
                        cond_ok)
         IN  [state |-> nav.state, returned |-> nav.returned, rerun |-> FALSE]

-----------------------------------------------------------------------------
(* The managers' operations as actions *)

\* the record kept of a call: its name, its arguments (target and force of a
\* navigation, settings of start_new_quiz, button of handle_quiz_interruption),
\* and what came of it
CallRecord(op, target, force, settings, button, value, raised, inner, hooks) ==
    [ op |-> op, target |-> target, force |-> force, settings |-> settings,
      button |-> button, returned |-> value, raised |-> raised, inner |-> inner,
      hooks |-> hooks ]

NoCall == CallRecord("", "", FALSE, None, "", FALSE, FALSE, None, <<>>)

\* a call of SessionManager, which returns nothing
SessionCall(op, settings) ==
    CallRecord(op, "", FALSE, settings, "", FALSE, FALSE, None, <<>>)

\* the total_questions values callers choose
TotalChoices == {1, 2}

SettingsChoices == {QuizSettings(m, t) : m \in {"upper_to_lower", "poem_to_author"}, t \in TotalChoices}

UpdateQuizSettings ==
    /\ \E settings \in SettingsChoices :
          Becomes(update_quiz_settings(State, settings.mode, settings.total_questions))
    /\ last_call' = SessionCall("update_quiz_settings", None)
    /\ UNCHANGED <<gen_vars, val_vars, graded, peer, partial_seen>>

StartNewQuiz ==
    /\ \E settings \in {None} \cup {Some(x) : x \in SettingsChoices} :
          /\ Becomes(start_new_quiz(State, settings))
          /\ last_call' = SessionCall("start_new_quiz", settings)
    /\ UNCHANGED <<gen_vars, val_vars, graded, peer, partial_seen>>

ResetQuiz ==
    /\ session_manager.session_id < MaxSessions
    /\ Becomes(reset_quiz(State))
    /\ last_call' = SessionCall("reset_quiz", None)
    /\ UNCHANGED <<gen_vars, val_vars, graded, peer, partial_seen>>

\* the quiz screen's record_answer call: the chosen text, or None on a skip
RecordAnswer ==
    /\ Len(quiz_session.results) < MaxRecorded
    /\ \E user_answer \in {None, Some(<<"a", "b">>), Some(<<"c", "d">>)} :
          Becomes(record_answer(State, 1, <<"a", "b">>, user_answer))
    /\ last_call' = SessionCall("record_answer", None)
    /\ UNCHANGED <<gen_vars, val_vars, graded, peer, partial_seen>>

AdvanceQuestion ==
    /\ quiz_session.current_question <= MaxQuestion
    /\ Becomes(advance_question(State))
    /\ last_call' = SessionCall("advance_question", None)
    /\ UNCHANGED <<gen_vars, val_vars, graded, peer, partial_seen>>

\* initialize_session and get_screen_manager on the new st.session_state of a
\* browser session, by the process's SessionManager
initialize_session(S) ==
    [ quiz_session |-> NewQuizSession(S.session_manager.session_id),
      session_state |-> NewSessionState,
      session_manager |-> S.session_manager,
      screen_manager |-> NewScreenManager ]

\* the st.session_state of the browser session being served
Served == [ quiz_session |-> quiz_session, session_state |-> session_state,
            screen_manager |-> screen_manager ]

\* a second browser session connects: the process runs the script for it on a
\* new st.session_state, with the SessionManager get_session_manager returns
ConnectOtherSession ==
    /\ peer = None
    /\ peer' = Some(Served)
    /\ Becomes(initialize_session(State))
    /\ last_call' = SessionCall("initialize_session", None)
    /\ UNCHANGED <<gen_vars, val_vars, graded, partial_seen>>

\* the process turns to the other browser session: st.session_state is now
\* that session's, the SessionManager is the same
SwitchSession ==
    /\ peer # None
    /\ peer' = Some(Served)
    /\ quiz_session' = peer[1].quiz_session
    /\ session_state' = peer[1].session_state
    /\ screen_manager' = peer[1].screen_manager
    /\ last_call' = SessionCall("switch_session", None)
    /\ UNCHANGED <<gen_vars, val_vars, graded, session_manager, partial_seen>>

\* the quiz screen stores the choice the user selects
SelectChoice ==
    /\ \E selected_choice \in 0..1 :
          session_state' = [session_state EXCEPT !.user_answer = Some(selected_choice)]
    /\ last_call' = SessionCall("select_choice", None)
    /\ UNCHANGED <<gen_vars, val_vars, graded, quiz_session, session_manager, screen_manager,
                 peer, partial_seen>>

\* session_manager.navigate_to(screen), the module's convenience function
SetCurrentScreen ==
    /\ \E screen \in ScreenType : Becomes(set_current_screen(State, screen))
    /\ last_call' = SessionCall("set_current_screen", None)
    /\ UNCHANGED <<gen_vars, val_vars, graded, peer, partial_seen>>

\* the payloads passed to navigate_to: none, or one on the way to the results
Payloads(target_screen) ==
    IF target_screen = "result" THEN { {}, {<<"k", "v">>} } ELSE { {} }

NavigateTo ==
    /\ Len(screen_manager.navigation_history) < MaxNavigations
    /\ \E target_screen \in ScreenType, force \in BOOLEAN, cond_ok \in BOOLEAN,
          callback \in {None, Some(Callback("before", FALSE, "start"))} :
       \E data \in Payloads(target_screen) :
          LET nav == navigate_to(State, target_screen, data, "none", force, cond_ok, callback)
          IN  /\ Becomes(nav.state)
              /\ last_call' = [data |-> data, cond_ok |-> cond_ok] @@
                                  CallRecord("navigate_to", target_screen, force, None, "",
                                             nav.returned, FALSE, nav.inner, nav.hooks)
    /\ UNCHANGED <<gen_vars, val_vars, graded, peer, partial_seen>>

\* the callbacks a caller registers: a 'before' callback for every transition,
\* or an 'enter' callback for the target screen (run on the 'after' event); the
\* 'enter' callback navigates to other screens than the one it is registered for
Callbacks(target_screen) ==
    { Callback("before", FALSE, "start") }
        \cup { Callback("after", home_first, target) :
                   home_first \in (IF target_screen = "start" THEN {FALSE} ELSE BOOLEAN),
                   target \in {"quiz", "settings"} \ {target_screen} }

\* navigate_to(target_screen) with one callback registered
NavigateWithCallback ==
    /\ Len(screen_manager.navigation_history) < MaxNavigations
    /\ \E target_screen \in ScreenType, force \in BOOLEAN :
       \E callback \in Callbacks(target_screen) :
          LET nav == navigate_to(State, target_screen, {}, "none", force, TRUE, Some(callback))
          IN  /\ Becomes(nav.state)
              /\ last_call' = [callback |-> callback] @@
                                  CallRecord("navigate_to", target_screen, force, None, "",
                                             nav.returned, FALSE, nav.inner, nav.hooks)
    /\ UNCHANGED <<gen_vars, val_vars, graded, peer, partial_seen>>

\* navigate_with_transition(target_screen, TransitionType.FADE)
NavigateWithTransition ==
    /\ Len(screen_manager.navigation_history) < MaxNavigations
    /\ \E target_screen \in ScreenType :
          LET nav == navigate_to(State, target_screen, {}, "fade", FALSE, TRUE, None)
          IN  /\ Becomes(nav.state)
              /\ last_call' = CallRecord("navigate_to", target_screen, FALSE, None, "",
                                         nav.returned, FALSE, nav.inner, nav.hooks)
    /\ UNCHANGED <<gen_vars, val_vars, graded, peer, partial_seen>>

NavigateHome ==
    /\ Len(screen_manager.navigation_history) < MaxNavigations
    /\ LET nav == navigate_home(State, TRUE)
       IN  /\ Becomes(nav.state)
           /\ last_call' = CallRecord("navigate_home", "start", TRUE, None, "",
                                      nav.returned, FALSE, nav.inner, nav.hooks)
    /\ UNCHANGED <<gen_vars, val_vars, graded, peer, partial_seen>>

\* add_navigation_rule, while the manager is set up
AddNavigationRule ==
    /\ screen_manager.current_screen = None
    /\ Len(screen_manager.navigation_rules) < Len(QuizRules) + Len(ExtraRules)
    /\ Becomes(add_navigation_rule(State,
           ExtraRules[Len(screen_manager.navigation_rules) - Len(QuizRules) + 1]))
    /\ last_call' = SessionCall("add_navigation_rule", None)
    /\ UNCHANGED <<gen_vars, val_vars, graded, peer, partial_seen>>

\* the user answers the prompt the UI shows while a confirmation is pending
AnswerConfirmation ==
    /\ session_state.confirmation_pending # None
    /\ \E answer \in BOOLEAN :
          session_state' = [session_state EXCEPT !.confirmation_result = Some(answer)]
    /\ last_call' = SessionCall("answer_confirmation", None)
    /\ UNCHANGED <<gen_vars, val_vars, graded, quiz_session, session_manager, screen_manager,
                 peer, partial_seen>>

\* mark_screen_dirty(), on the current screen
MarkScreenDirty ==
    /\ screen_manager.current_screen # None
    /\ Becomes(mark_screen_dirty(State, screen_manager.current_screen[1]))
    /\ last_call' = SessionCall("mark_screen_dirty", None)
    /\ UNCHANGED <<gen_vars, val_vars, graded, peer, partial_seen>>

\* the screens of an application with more screens than the stack holds: the
\* start screen and the screens its menu leads to
Round ==
    << "start", "settings", "review", "help", "about", "ranking",
       "history", "profile", "stats", "credits", "library", "practice" >>

\* the menu entry after the given screen's
NextInRound(screen_id) ==
    LET i == CHOOSE k \in 1..Len(Round) : Round[k] = screen_id
    IN  IF i = Len(Round) THEN Round[2] ELSE Round[i + 1]

\* where a user who visits the menu's screens one after the other goes next:
\* from a screen back to the start screen, from the start screen to the screen
\* after the one they came from
NextOnWalk(m) ==
    IF m.current_screen = None THEN "start"
    ELSE IF m.current_screen # Some("start") THEN "start"
    ELSE LET came_from == m.screen_states["start"].previous_screen
         IN  IF came_from = None THEN Round[2] ELSE NextInRound(came_from[1])

\* navigate_to(target_screen): the user walks on or, during the first
\* MaxDetours navigations, goes from a screen straight to the next one
WalkScreens ==
    /\ \E target_screen \in Range(Round) :
          /\ \/ target_screen = NextOnWalk(screen_manager)
             \/ /\ Len(screen_manager.navigation_history) < MaxDetours
                /\ screen_manager.current_screen \notin {None, Some("start")}
                /\ target_screen = NextInRound(screen_manager.current_screen[1])
          /\ LET nav == navigate_to(State, target_screen, {}, "none", FALSE, TRUE, None)
             IN  /\ Becomes(nav.state)
                 /\ last_call' = [data |-> {}, cond_ok |-> TRUE] @@
                                     CallRecord("navigate_to", target_screen, FALSE, None, "",
                                                nav.returned, FALSE, nav.inner, nav.hooks)
    /\ UNCHANGED <<gen_vars, val_vars, graded, peer, partial_seen>>

\* the record kept of a should_update call
UpdateCall(component_id, data, strategy, value) ==
    [component_id |-> component_id, data |-> data, strategy |-> strategy] @@
        CallRecord("should_update", "", FALSE, None, "", value, FALSE, None, <<>>)

\* the data of the last PARTIAL call for each component of each screen, after
\* one more call
Seen(seen, current_screen, component_id, data, strategy) ==
    IF strategy = "partial" THEN MapSet(seen, <<current_screen, component_id>>, data)
    ELSE seen

\* optimized_update of a component of the current screen, without data
ShouldUpdate ==
    /\ screen_manager.current_screen \in {Some("start"), Some("result")}
    /\ \E strategy \in {"full", "partial"} :
          LET upd == should_update(State, "header", NoData, strategy)
          IN  /\ Becomes(upd.state)
              /\ last_call' = UpdateCall("header", NoData, strategy, upd.returned)
              /\ partial_seen' = Seen(partial_seen, screen_manager.current_screen,
                                      "header", NoData, strategy)
    /\ UNCHANGED <<gen_vars, val_vars, graded, peer>>

\* the components of a screen that are drawn through should_update
Components == {"header"}

\* should_update(component_id, data, strategy) on the current screen
ShouldUpdateWith ==
    /\ screen_manager.current_screen # None
    /\ \E component_id \in Components, data \in DataValues, strategy \in {"full", "partial"} :
          LET upd == should_update(State, component_id, data, strategy)
          IN  /\ Becomes(upd.state)
              /\ last_call' = UpdateCall(component_id, data, strategy, upd.returned)
              /\ partial_seen' = Seen(partial_seen, screen_manager.current_screen,
                                      component_id, data, strategy)
    /\ UNCHANGED <<gen_vars, val_vars, graded, peer>>

\* navigate_to('start') and navigate_to('settings'), the two screens whose
\* components are drawn through should_update
SwitchScreen ==
    /\ Len(screen_manager.navigation_history) < MaxNavigations
    /\ \E target_screen \in {"start", "settings"} :
          LET nav == navigate_to(State, target_screen, {}, "none", FALSE, TRUE, None)
          IN  /\ Becomes(nav.state)
              /\ last_call' = [data |-> {}, cond_ok |-> TRUE] @@
                                  CallRecord("navigate_to", target_screen, FALSE, None, "",
                                             nav.returned, FALSE, nav.inner, nav.hooks)
    /\ UNCHANGED <<gen_vars, val_vars, graded, peer, partial_seen>>

RestartQuiz ==
    /\ Len(screen_manager.navigation_history) < MaxNavigations
    /\ session_manager.session_id < MaxSessions
    /\ LET nav == restart_quiz(State, TRUE)
       IN  /\ Becomes(nav.state)
           /\ last_call' = CallRecord("restart_quiz", "start", TRUE, None, "",
                                      nav.returned, FALSE, nav.inner, nav.hooks)
    /\ UNCHANGED <<gen_vars, val_vars, graded, peer, partial_seen>>

CompleteQuiz ==
    /\ Len(screen_manager.navigation_history) < MaxNavigations
    /\ LET done == complete_quiz(State, TRUE)
       IN  /\ Becomes(done.state)
           /\ last_call' = CallRecord("complete_quiz", "result", FALSE, None, "",
                                      done.returned, done.raised, None, <<>>)
    /\ UNCHANGED <<gen_vars, val_vars, graded, peer, partial_seen>>

HandleQuizInterruption ==
    /\ Len(screen_manager.navigation_history) < MaxNavigations
    /\ session_manager.session_id < MaxSessions
    /\ \E button \in {"yes", "no", "none"} :
          LET out == handle_quiz_interruption(State, button, TRUE)
          IN  /\ Becomes(out.state)
              /\ last_call' = CallRecord("handle_quiz_interruption", "start", TRUE, None,
                                         button, out.returned, FALSE, None, <<>>)
    /\ UNCHANGED <<gen_vars, val_vars, graded, peer, partial_seen>>

-----------------------------------------------------------------------------
(* app.py: the screens of the application, one action per script run *)

\* the first two options of the question-count selectbox of the start screen
QuestionCounts == {5, 10}

\* a script run's call of a ScreenManager navigation, recorded
Navigated(nav, op, target, force) ==
    /\ Becomes(nav.state)
    /\ last_call' = CallRecord(op, target, force, None, "", nav.returned, FALSE, nav.inner, nav.hooks)

\* the initialisation: navigate_to('start') when there is no current screen
InitializeApp ==
    /\ screen_manager.current_screen = None
    /\ Navigated(navigate_to(State, "start", {}, "none", FALSE, TRUE, None),
                 "navigate_to", "start", FALSE)
    /\ UNCHANGED <<gen_vars, val_vars, graded, peer, partial_seen>>

\* show_start_screen: every run stores the selected settings in the session; with
\* the Start button pressed it starts a new quiz, resets the generator's and the
\* validator's records and goes to the quiz screen
ShowStartScreen ==
    /\ screen_manager.current_screen = Some("start")
    /\ \E question_count \in QuestionCounts, start_button \in BOOLEAN :
          /\ start_button => Len(screen_manager.navigation_history) < MaxVisits
          /\ LET chosen == update_quiz_settings(State, "upper_to_lower", question_count)
             IN  IF start_button
                 THEN /\ Navigated(navigate_to(start_new_quiz(chosen, None), "quiz", {}, "slide",
                                              FALSE, TRUE, None),
                                   "navigate_to", "quiz", FALSE)
                      /\ used_questions' = {}
                      /\ returned' = EmptyBag
                      /\ statistics' = NewStatistics
                      /\ result' = None
                      /\ calls' = <<>>
                      /\ UNCHANGED <<poems_data, question, gen_hung, grq, graded, peer, partial_seen>>
                 ELSE /\ Becomes(chosen)
                      /\ last_call' = SessionCall("update_quiz_settings", None)
                      /\ UNCHANGED <<gen_vars, val_vars, graded, peer, partial_seen>>

\* the question the quiz screen shows: poem 1, whose choice 0 is the correct one
ShownQuestion == 1

\* show_quiz_screen up to the buttons: a question is generated when there is
\* none, and the quiz screen marked dirty
QuestionShown(S) ==
    IF S.session_state.current_quiz_question = None
    THEN mark_screen_dirty(
             [S EXCEPT !.session_state.current_quiz_question = Some(ShownQuestion),
                       !.session_state.answered = FALSE,
                       !.session_state.user_answer = None],
             "quiz")
    ELSE S

\* the check_answer call of the Answer button (choice 0 selected) and of the
\* Skip button, after 2.0 s
AnswerCall(button) ==
    IF button = "answer"
    THEN Call(ShownQuestion, ChoiceText(0), 0, Some(ChoiceText(0)), Some(0), 20, FALSE, None)
    ELSE Call(ShownQuestion, ChoiceText(0), 0, None, None, 20, FALSE, None)

\* show_quiz_screen with the Answer or the Skip button pressed on an unanswered
\* question: check_answer, record_answer, answered = True
QuizScreenAnswer ==
    /\ screen_manager.current_screen = Some("quiz")
    /\ statistics.total_questions < quiz_session.settings.total_questions
    /\ statistics.total_questions < MaxPlayed
    /\ ~QuestionShown(State).session_state.answered
    /\ \E button \in {"answer", "skip"} :
          LET c == AnswerCall(button)
              shown == QuestionShown(State)
              selected == IF button = "answer"
                          THEN [shown EXCEPT !.session_state.user_answer = Some(0)]
                          ELSE shown
              recorded == record_answer(selected, c.poem_number, c.correct_answer, c.user_answer)
          IN  /\ check_answer(c)
              /\ Becomes([recorded EXCEPT !.session_state.answered = TRUE,
                                          !.session_state.user_answer =
                                               IF button = "skip" THEN None ELSE @])
              /\ last_call' = SessionCall("record_answer", None)
    /\ UNCHANGED <<gen_vars, graded, peer, partial_seen>>

\* show_quiz_screen with the Next button pressed: on an answered question it
\* clears the question, and goes to the results when the count read at the top
\* of the run, plus one, reaches the configured total; on a finished quiz it goes
\* to the results
QuizScreenNext ==
    /\ screen_manager.current_screen = Some("quiz")
    /\ Len(screen_manager.navigation_history) < MaxVisits
    /\ LET answered_count == statistics.total_questions
           total_questions == quiz_session.settings.total_questions
       IN  IF answered_count >= total_questions
           THEN Navigated(navigate_to(State, "result", {}, "none", FALSE, TRUE, None),
                          "navigate_to", "result", FALSE)
           ELSE /\ QuestionShown(State).session_state.answered
                /\ LET cleared == [State EXCEPT
                                      !.session_state.current_quiz_question = None,
                                      !.session_state.answered = FALSE,
                                      !.session_state.user_answer = None]
                   IN  IF answered_count + 1 >= total_questions
                       THEN Navigated(navigate_to(cleared, "result", {}, "none", FALSE, TRUE, None),
                                      "navigate_to", "result", FALSE)
                       ELSE /\ Becomes(cleared)
                            /\ last_call' = SessionCall("next_question", None)
    /\ UNCHANGED <<gen_vars, val_vars, graded, peer, partial_seen>>

\* the navigation bar's safe_navigate(screen)
NavigationBar ==
    /\ screen_manager.current_screen # None
    /\ Len(screen_manager.navigation_history) < MaxVisits
    /\ \E screen \in {"start", "quiz", "result", "settings"} :
          /\ ~(screen = "result" /\ screen_manager.current_screen # Some("quiz"))
          /\ Navigated(navigate_to(State, screen, {}, "fade", FALSE, TRUE, None),
                       "navigate_to", screen, FALSE)
    /\ UNCHANGED <<gen_vars, val_vars, graded, peer, partial_seen>>

\* show_result_screen with the Home or the Restart button pressed
ShowResultScreen ==
    /\ screen_manager.current_screen = Some("result")
    /\ Len(screen_manager.navigation_history) < MaxVisits
    /\ \/ Navigated(navigate_home(State, TRUE), "navigate_home", "start", TRUE)
       \/ /\ session_manager.session_id < MaxSessions
          /\ Navigated(restart_quiz(State, TRUE), "restart_quiz", "start", TRUE)
    /\ UNCHANGED <<gen_vars, val_vars, graded, peer, partial_seen>>

-----------------------------------------------------------------------------
(* Specifications *)

\* a new QuizGenerator on any corpus, a new AnswerValidator, nothing graded
InitGenerator ==
    /\ poems_data \in Corpora
    /\ used_questions = {}
    /\ question = None
    /\ returned = EmptyBag
    /\ gen_hung = FALSE
    /\ grq = GrqIdle
    /\ statistics = NewStatistics
    /\ result = None
    /\ calls = <<>>
    /\ graded = None
    /\ quiz_session = NewQuizSession(1)
    /\ session_state = NewSessionState
    /\ session_manager = [session_id |-> 1]
    /\ screen_manager = NewScreenManager
    /\ last_call = NoCall
    /\ peer = None
    /\ partial_seen = EmptyMap

\* the same, the corpus being the whole catalogue
InitValidator ==
    /\ poems_data = Range(Catalogue)
    /\ used_questions = {}
    /\ question = None
    /\ returned = EmptyBag
    /\ gen_hung = FALSE
    /\ grq = GrqIdle
    /\ statistics = NewStatistics
    /\ result = None
    /\ calls = <<>>
    /\ graded = None
    /\ quiz_session = NewQuizSession(1)
    /\ session_state = NewSessionState
    /\ session_manager = [session_id |-> 1]
    /\ screen_manager = NewScreenManager
    /\ last_call = NoCall
    /\ peer = None
    /\ partial_seen = EmptyMap

\* sequences of generator calls, over every corpus
GenNext ==
    \/ GenerateQuestion
    \/ ResetUsedQuestions
    \/ GetRandomQuestionsCall
    \/ GetRandomQuestionsIterate
    \/ GetRandomQuestionsReturn

SpecGen == InitGenerator /\ [][GenNext]_vars

\* one question, in full, from a fresh generator, over every corpus
QuestionNext ==
    \/ FirstQuestion
    \/ ResetUsedQuestions

SpecQuestion == InitGenerator /\ [][QuestionNext]_vars

\* one answer judged by a fresh validator, over every kind of call
JudgeNext ==
    \/ FirstAnswer
    \/ ResetStatistics

SpecJudge == InitValidator /\ [][JudgeNext]_vars

\* one answer judged by its text by a fresh validator
TextNext ==
    \/ TextAnswer
    \/ ResetStatistics

SpecText == InitValidator /\ [][TextNext]_vars

\* sequences of answers judged by one validator
StatsNext ==
    \/ CheckAnswer
    \/ ResetStatistics

SpecStats == InitValidator /\ [][StatsNext]_vars

\* one answer judged by a fresh validator, faults included
GuardedNext ==
    \/ GuardedAnswer
    \/ ResetStatistics

SpecGuarded == InitValidator /\ [][GuardedNext]_vars

\* the SessionManager's operations, in any order
SessionNext ==
    \/ UpdateQuizSettings
    \/ StartNewQuiz
    \/ ResetQuiz
    \/ RecordAnswer
    \/ AdvanceQuestion
    \/ SelectChoice
    \/ SetCurrentScreen

SpecSession == InitValidator /\ [][SessionNext]_vars

\* quizzes started and advanced, the settings being those given at the start
ProgressNext ==
    \/ StartNewQuiz
    \/ AdvanceQuestion
    \/ RecordAnswer

SpecProgress == InitValidator /\ [][ProgressNext]_vars

\* the ScreenManager's navigation, in any order, with the rules callers add and
\* the confirmations users give
NavigationNext ==
    \/ NavigateTo
    \/ NavigateHome
    \/ AddNavigationRule
    \/ AnswerConfirmation
    \/ MarkScreenDirty

SpecNavigation == InitValidator /\ [][NavigationNext]_vars

\* navigation with a transition callback registered
CallbacksNext ==
    \/ NavigateWithCallback
    \/ NavigateHome
    \/ AnswerConfirmation

SpecCallbacks == InitValidator /\ [][CallbacksNext]_vars

\* a long walk through the screens of an application, long enough for the
\* history and the screen stack to reach their limits
HistoryNext ==
    \/ WalkScreens
    \/ MarkScreenDirty

SpecHistory == InitValidator /\ [][HistoryNext]_vars

\* two browser sessions served by one process, each running the quiz
TwoSessionsNext ==
    \/ ConnectOtherSession
    \/ SwitchSession
    \/ ResetQuiz
    \/ RecordAnswer
    \/ AdvanceQuestion

SpecTwoSessions == InitValidator /\ [][TwoSessionsNext]_vars

\* should_update calls for the components of two screens, between navigations
UpdateNext ==
    \/ SwitchScreen
    \/ ShouldUpdateWith

SpecUpdate == InitValidator /\ [][UpdateNext]_vars

\* the QuizScreenManager's quiz operations, in any order, on a session that
\* advances, between the application's own navigations
QuizFlowNext ==
    \/ NavigateWithTransition
    \/ NavigateHome
    \/ AnswerConfirmation
    \/ ShouldUpdate
    \/ RestartQuiz
    \/ CompleteQuiz
    \/ HandleQuizInterruption
    \/ AdvanceQuestion

SpecQuizFlow == InitValidator /\ [][QuizFlowNext]_vars

\* the grade of every statistics record of up to MaxTotal questions
SpecGrade == InitValidator /\ [][Grade]_vars

\* the application's script runs, in any order the screens allow
AppNext ==
    \/ InitializeApp
    \/ ShowStartScreen
    \/ QuizScreenAnswer
    \/ QuizScreenNext
    \/ NavigationBar
    \/ ShowResultScreen

SpecApp == InitValidator /\ [][AppNext]_vars

-----------------------------------------------------------------------------
(* Properties of the question generator *)

\* C1: between two calls of reset_used_questions, one generator never returns
\* two questions with the same (poem number, quiz type) pair, whether they come
\* from generate_question or from get_random_questions.
C1_NoPairReturnedTwice ==
    \A pair \in BagToSet(returned) : CopiesIn(pair, returned) = 1

\* two questions on the same poem, of different types, the second one collected
\* by get_random_questions
C1_Witness ==
    /\ BagCardinality(returned) = 2
    /\ Len(grq.questions) = 1
    /\ \E a, b \in BagToSet(returned) : a # b /\ a[1] = b[1]

\* C2: every returned question has pairwise distinct choices, and
\* choices[correct_answer_index] is correct_answer.
C2_DistinctChoicesIndexed ==
    question # None =>
        LET q == question[1]
        IN  /\ \A i, j \in 1..Len(q.choices) : i # j => q.choices[i] # q.choices[j]
            /\ q.choices[q.correct_answer_index + 1] = q.correct_answer

-----------------------------------------------------------------------------
(* Properties of the answer validator *)

\* the arguments and the result of the call just made
LastCall == calls[Len(calls)]
LastResult == result[1]

\* the timeout test of the call just made did not fire
NoTimeoutApplies ==
    ~(Truthy(LastCall.timeout_seconds)
        /\ LastCall.time_taken >= LastCall.timeout_seconds[1])

\* C3, as stated: a call whose answer_index equals correct_index returns
\* is_correct true, whatever user_answer, time_taken and hint_used are.
C3_MatchingIndexIsCorrect ==
    (result # None /\ LastCall.answer_index = Some(LastCall.correct_index))
        => is_correct(LastResult)

\* C3, amended: a call whose answer_index equals correct_index returns is_correct
\* true, whatever user_answer, time_taken and hint_used are, when timeout_seconds
\* is absent or time_taken is below it; with a non-zero timeout_seconds that
\* time_taken has reached, it returns Timeout and is_correct false.
C3_MatchingIndexIsCorrectInTime ==
    (result # None /\ LastCall.answer_index = Some(LastCall.correct_index)) =>
        /\ (LastCall.timeout_seconds = None
              \/ LastCall.time_taken < LastCall.timeout_seconds[1])
             => is_correct(LastResult)
        /\ (Truthy(LastCall.timeout_seconds)
              /\ LastCall.time_taken >= LastCall.timeout_seconds[1])
             => (LastResult.status = "TIMEOUT" /\ ~is_correct(LastResult))

\* a matching index with a text that does not match, a hint and a timeout not
\* yet reached
C3_Witness ==
    /\ result # None
    /\ LastCall.answer_index = Some(LastCall.correct_index)
    /\ LastCall.user_answer # None
    /\ ~compare_answers(LastCall.correct_answer, LastCall.user_answer[1])
    /\ LastCall.hint_used
    /\ LastCall.timeout_seconds # None
    /\ LastCall.time_taken > 0
    /\ LastCall.time_taken < LastCall.timeout_seconds[1]
    /\ LastResult.status = "HINT_USED"

\* C4: a call whose answer_index is present and differs from correct_index
\* returns is_correct false, even when user_answer is the correct text or close
\* to it.
C4_OtherIndexIsNotCorrect ==
    (result # None /\ LastCall.answer_index # None
        /\ LastCall.answer_index[1] # LastCall.correct_index)
        => ~is_correct(LastResult)

\* another index with a text the fuzzy comparison accepts, and no timeout
C4_Witness ==
    /\ result # None
    /\ LastCall.answer_index # None
    /\ LastCall.answer_index[1] # LastCall.correct_index
    /\ LastCall.user_answer # None
    /\ LastCall.user_answer[1] # LastCall.correct_answer
    /\ compare_answers(LastCall.correct_answer, LastCall.user_answer[1])
    /\ LastCall.timeout_seconds = None
    /\ LastResult.status = "INCORRECT"

\* the points C5 states, in hundredths, time in tenths of a second
C5_Points(status, time_taken) ==
    CASE status = "CORRECT" /\ time_taken >= 50 -> 100
      [] status = "CORRECT" /\ time_taken < 50 ->
            IF 100 + (50 - time_taken) > 150 THEN 150 ELSE 100 + (50 - time_taken)
      [] status = "HINT_USED" -> 70
      [] OTHER -> 0

\* C5: a Correct answer scores 1.0 plus 0.1 per second under five seconds,
\* capped at 1.5 and 1.0 from five seconds on; a HintUsed answer scores 0.7;
\* Incorrect, Skipped and Timeout score 0; total_points receives that score.
C5_PointsByStatusAndTime ==
    result # None =>
        /\ points(LastResult) = C5_Points(LastResult.status, LastResult.time_taken)
        /\ statistics.total_points = C5_Points(LastResult.status, LastResult.time_taken)
        /\ (LastResult.status = "CORRECT" /\ LastResult.time_taken = 0)
             => points(LastResult) = 150
        /\ (LastResult.status = "CORRECT" /\ LastResult.time_taken = 35)
             => points(LastResult) = 115

\* an immediate Correct answer, at the cap
C5_Witness ==
    /\ result # None
    /\ LastResult.status = "CORRECT"
    /\ LastResult.time_taken = 0
    /\ statistics.total_points = 150

\* how many results of the sequence have one of the statuses
CountStatus(results, statuses) ==
    Cardinality({i \in 1..Len(results) : results[i].status \in statuses})

\* C6: total_questions is the number of check_answer calls since the last
\* reset, correct_answers the number of Correct and HintUsed results, accuracy
\* is correct_answers / total_questions * 100 and 0 with no question; three
\* Correct, one HintUsed and one Skipped give 5, 4, 80 and grade B+.
C6_TotalsAndAccuracy ==
    /\ statistics.total_questions = Len(calls)
    /\ Len(statistics.answer_results) = Len(calls)
    /\ statistics.correct_answers
         = CountStatus(statistics.answer_results, {"CORRECT", "HINT_USED"})
    /\ Len(calls) = 0 => accuracy(statistics).num = 0
    /\ Len(calls) > 0 =>
         accuracy(statistics).num * Len(calls)
           = 100 * CountStatus(statistics.answer_results, {"CORRECT", "HINT_USED"})
               * accuracy(statistics).den
    /\ (/\ Len(calls) = 5
        /\ CountStatus(statistics.answer_results, {"CORRECT"}) = 3
        /\ CountStatus(statistics.answer_results, {"HINT_USED"}) = 1
        /\ CountStatus(statistics.answer_results, {"SKIPPED"}) = 1)
         => /\ statistics.total_questions = 5
            /\ statistics.correct_answers = 4
            /\ accuracy(statistics).num = 80 * accuracy(statistics).den
            /\ calculate_grade(statistics) = "B+"

\* three Correct, one HintUsed and one Skipped
C6_Witness ==
    /\ Len(calls) = 5
    /\ CountStatus(statistics.answer_results, {"CORRECT"}) = 3
    /\ CountStatus(statistics.answer_results, {"HINT_USED"}) = 1
    /\ CountStatus(statistics.answer_results, {"SKIPPED"}) = 1
    /\ statistics.correct_answers = 4

\* the grade C7 states for correct answers out of total
C7_Grade(correct, total) ==
    LET pct100 == IF total = 0 THEN 0 ELSE correct * 100
        den == IF total = 0 THEN 1 ELSE total
    IN  CASE pct100 >= 95 * den -> "S"
          [] pct100 < 95 * den /\ pct100 >= 90 * den -> "A+"
          [] pct100 < 90 * den /\ pct100 >= 85 * den -> "A"
          [] pct100 < 85 * den /\ pct100 >= 80 * den -> "B+"
          [] pct100 < 80 * den /\ pct100 >= 75 * den -> "B"
          [] pct100 < 75 * den /\ pct100 >= 70 * den -> "C+"
          [] pct100 < 70 * den /\ pct100 >= 65 * den -> "C"
          [] pct100 < 65 * den /\ pct100 >= 60 * den -> "D"
          [] OTHER -> "F"

\* C7: the grade is S from 95, A+ from 90, A from 85, B+ from 80, B from 75,
\* C+ from 70, C from 65, D from 60 and F below, each bound included; 95 exactly
\* is S, 90 exactly is A+, and no answered question is F.
C7_GradeThresholds ==
    graded # None =>
        LET g == graded[1]
        IN  /\ g.grade = C7_Grade(g.correct_answers, g.total_questions)
            /\ (g.correct_answers = 19 /\ g.total_questions = 20) => g.grade = "S"
            /\ (g.correct_answers = 9 /\ g.total_questions = 10) => g.grade = "A+"
            /\ g.total_questions = 0 => g.grade = "F"

\* nineteen of twenty: 95 exactly
C7_Witness ==
    /\ graded # None
    /\ graded[1].total_questions = 20
    /\ graded[1].correct_answers = 19
    /\ graded[1].grade = "S"

\* C8: a call whose timeout_seconds is supplied and whose time_taken has reached
\* it returns Timeout, whatever the answer; a call without timeout_seconds never
\* returns Timeout.
C8_TimeoutWhenReached ==
    result # None =>
        /\ (LastCall.timeout_seconds # None
              /\ LastCall.time_taken >= LastCall.timeout_seconds[1])
             => LastResult.status = "TIMEOUT"
        /\ LastCall.timeout_seconds = None => LastResult.status # "TIMEOUT"

\* C9: when no timeout applies, the result is Skipped exactly when user_answer
\* and answer_index are both absent; an empty user_answer without an index is
\* Incorrect; a Skipped result scores 0 and is counted in skipped_answers and in
\* total_questions.
C9_SkippedIffNothingGiven ==
    (result # None /\ NoTimeoutApplies) =>
        /\ LastResult.status = "SKIPPED"
             <=> (LastCall.user_answer = None /\ LastCall.answer_index = None)
        /\ (LastCall.user_answer = Some(<<>>) /\ LastCall.answer_index = None)
             => LastResult.status = "INCORRECT"
        /\ LastResult.status = "SKIPPED"
             => /\ points(LastResult) = 0
                /\ statistics.total_points = 0
                /\ statistics.skipped_answers = 1
                /\ statistics.total_questions = 1

\* an empty answer without an index, judged Incorrect
C9_Witness ==
    /\ result # None
    /\ NoTimeoutApplies
    /\ LastCall.user_answer = Some(<<>>)
    /\ LastCall.answer_index = None
    /\ LastResult.status = "INCORRECT"
    /\ statistics.skipped_answers = 0

\* how many results of the sequence were given with a hint
CountHints(results) ==
    Cardinality({i \in 1..Len(results) : results[i].hint_used})

\* C10: hint_used_count goes up by one for each call made with hint_used, so it
\* is the number of such calls and never exceeds total_questions.
C10_HintCountedOnce ==
    /\ statistics.hint_used_count = CountHints(statistics.answer_results)
    /\ statistics.hint_used_count <= statistics.total_questions

\* C11: check_answer never raises to its caller; a call in which a fault occurs
\* (here a time_taken of None, which faults in _determine_answer_status when a
\* timeout is given and in _update_statistics otherwise) returns a result that
\* carries the caller's arguments, with status Incorrect.
C11_FaultGivesIncorrect ==
    result # None =>
        /\ LastResult.status \in AnswerStatus
        /\ LastCall.time_taken = None =>
             /\ LastResult.status = "INCORRECT"
             /\ ~is_correct(LastResult)
             /\ LastResult.poem_number = LastCall.poem_number
             /\ LastResult.correct_answer = LastCall.correct_answer
             /\ LastResult.correct_index = LastCall.correct_index
             /\ LastResult.user_answer = LastCall.user_answer
             /\ LastResult.answer_index = LastCall.answer_index
             /\ LastResult.time_taken = LastCall.time_taken
             /\ LastResult.hint_used = LastCall.hint_used

\* a fault while updating the statistics, on an answer whose index matches
C11_Witness ==
    /\ result # None
    /\ LastCall.time_taken = None
    /\ LastCall.timeout_seconds = None
    /\ LastCall.answer_index = Some(LastCall.correct_index)
    /\ LastResult.status = "INCORRECT"
    /\ statistics.total_questions = 1

-----------------------------------------------------------------------------
(* Properties of get_random_questions *)

\* the poem numbers of a list of questions
PoemNumbersOf(questions) == {questions[i].poem_number : i \in 1..Len(questions)}

\* C20: get_random_questions(count, quiz_type, difficulty) returns, with at most
\* count questions on pairwise distinct poems and, for a fixed quiz_type, exactly
\* min(count, poems of the tier whose pair was unused at the call) of them.
C20_ReturnsMinCount ==
    /\ grq.active => ~gen_hung
    /\ grq.done =>
         /\ Len(grq.questions) <= grq.count
         /\ Cardinality(PoemNumbersOf(grq.questions)) = Len(grq.questions)
         /\ grq.quiz_type # None => Len(grq.questions) = Min(grq.count, grq.pool)

\* the same without the demand that the call returns
C20_CountWhenReturned ==
    grq.done =>
         /\ Len(grq.questions) <= grq.count
         /\ Cardinality(PoemNumbersOf(grq.questions)) = Len(grq.questions)
         /\ grq.quiz_type # None => Len(grq.questions) = Min(grq.count, grq.pool)

-----------------------------------------------------------------------------
(* Properties of the session manager *)

\* the per-question state is the one _reset_question_state leaves
QuestionStateCleared(ss) ==
    /\ ss.current_poem = None
    /\ ss.choices = <<>>
    /\ ss.answered = FALSE
    /\ ss.user_answer = None
    /\ ss.show_result = FALSE

\* C12: advance_question called at current_question = total_questions - 1
\* leaves current_question = total_questions, is_completed true and the
\* SessionManager's current screen Result; called while current_question + 1
\* is still below total_questions it leaves is_completed and the screen as they
\* were and clears the per-question state.
C12_AdvanceQuestion ==
    [][ last_call'.op = "advance_question" =>
          LET total == quiz_session.settings.total_questions
          IN  /\ quiz_session'.settings.total_questions = total
              /\ quiz_session'.current_question = quiz_session.current_question + 1
              /\ quiz_session.current_question = total - 1 =>
                    /\ quiz_session'.current_question = total
                    /\ quiz_session'.is_completed
                    /\ sm_get_current_screen(State)' = "result"
              /\ quiz_session.current_question + 1 < total =>
                    /\ quiz_session'.is_completed = quiz_session.is_completed
                    /\ ~quiz_session'.is_completed
                    /\ session_state'.current_screen = session_state.current_screen
                    /\ QuestionStateCleared(session_state') ]_vars

\* advance_question has just completed a session of two questions
C12_Witness ==
    /\ last_call.op = "advance_question"
    /\ quiz_session.settings.total_questions = 2
    /\ quiz_session.current_question = 2
    /\ quiz_session.is_completed
    /\ sm_get_current_screen(State) = "result"

\* C19: start_new_quiz sets current_question and score to 0, empties results,
\* wrong_answers and question_pool, clears is_completed, replaces the settings
\* only when settings are given, and leaves the session id and the current
\* screen unchanged.
C19_StartNewQuiz ==
    [][ last_call'.op = "start_new_quiz" =>
          /\ quiz_session'.current_question = 0
          /\ quiz_session'.score = 0
          /\ quiz_session'.results = <<>>
          /\ quiz_session'.wrong_answers = <<>>
          /\ quiz_session'.question_pool = <<>>
          /\ ~quiz_session'.is_completed
          /\ quiz_session'.settings = IF last_call'.settings # None
                                      THEN last_call'.settings[1]
                                      ELSE quiz_session.settings
          /\ quiz_session'.session_id = quiz_session.session_id
          /\ session_manager' = session_manager
          /\ session_state'.current_screen = session_state.current_screen ]_vars

\* start_new_quiz() without settings has just run on a session away from the
\* start screen whose settings had been changed
C19_Witness ==
    /\ last_call.op = "start_new_quiz"
    /\ last_call.settings = None
    /\ quiz_session.settings # DefaultSettings
    /\ session_state.current_screen = "result"
    /\ session_manager.session_id = 2
    /\ quiz_session.current_question = 0

-----------------------------------------------------------------------------
(* Properties of the screen manager *)

\* the part of the ScreenManager a navigation writes: the current screen, the
\* stored ScreenStates, the history and the stack
Navigation(m) ==
    <<m.current_screen, m.screen_states, m.navigation_history, m.screen_stack>>

\* C15: a navigate_to call that is rejected returns False without raising and
\* leaves the current screen, every stored ScreenState with its dirty flag, the
\* navigation history and the screen stack as they were; so does the call a
\* 'before' callback makes while a transition is in progress.
C15_RejectedChangesNothing ==
    [][ last_call'.op = "navigate_to" =>
          /\ ~last_call'.raised
          /\ ~last_call'.returned => Navigation(screen_manager') = Navigation(screen_manager)
          /\ last_call'.inner # None =>
                /\ ~last_call'.inner[1].returned
                /\ last_call'.inner[1].unchanged ]_vars

\* navigate_to('start') has just been rejected on the quiz screen, whose stored
\* state is dirty, for want of a confirmation
C15_Witness ==
    /\ last_call.op = "navigate_to"
    /\ last_call.target = "start"
    /\ ~last_call.returned
    /\ screen_manager.current_screen = Some("quiz")
    /\ screen_manager.screen_states["quiz"].is_dirty
    /\ session_state.confirmation_pending # None

\* the messages of the registered rules that ask for a confirmation on the
\* transition from from_screen (Optional) to to_screen
ConfirmationsAskedFor(m, from_screen, to_screen) ==
    { m.navigation_rules[i].confirmation_message : i \in
        { j \in 1..Len(m.navigation_rules) :
            /\ Some(m.navigation_rules[j].from_screen) = from_screen
            /\ m.navigation_rules[j].to_screen = to_screen
            /\ m.navigation_rules[j].confirmation_required } }

\* C14: a navigate_to over a transition that a registered rule makes subject to
\* confirmation returns True only when the confirmation pending at the call is
\* the one requested for that same transition and it has been granted;
\* otherwise it returns False and the current screen stays where it was.
C14_ConfirmationForSameTransition ==
    [][ /\ last_call'.op = "navigate_to"
        /\ ConfirmationsAskedFor(screen_manager, screen_manager.current_screen,
                                 last_call'.target) # {}
        => IF /\ session_state.confirmation_pending # None
              /\ session_state.confirmation_pending[1] \in
                    ConfirmationsAskedFor(screen_manager, screen_manager.current_screen,
                                          last_call'.target)
              /\ session_state.confirmation_result = Some(TRUE)
           THEN TRUE
           ELSE /\ ~last_call'.returned
                /\ screen_manager'.current_screen = screen_manager.current_screen ]_vars

\* a first request only records the pending message, and a request that finds a
\* confirmation pending without a grant is refused
C14_UngrantedNeverPasses ==
    [][ /\ last_call'.op = "navigate_to"
        /\ ConfirmationsAskedFor(screen_manager, screen_manager.current_screen,
                                 last_call'.target) # {}
        /\ session_state.confirmation_result # Some(TRUE)
        => /\ ~last_call'.returned
           /\ screen_manager'.current_screen = screen_manager.current_screen
           /\ session_state.confirmation_pending = None =>
                 /\ session_state'.confirmation_pending # None
                 /\ session_state'.confirmation_pending[1] \in
                       ConfirmationsAskedFor(screen_manager, screen_manager.current_screen,
                                             last_call'.target) ]_vars

-----------------------------------------------------------------------------
(* Properties of the quiz screen manager *)

\* a quiz session as reset_quiz leaves it, as far as its progress goes
FreshSession(q) ==
    /\ q.current_question = 0
    /\ q.score = 0
    /\ q.results = <<>>
    /\ ~q.is_completed

\* C16: when restart_quiz has returned, the current screen is Start, the quiz
\* session is a fresh one (question 0, score 0, no results, not completed), no
\* ScreenState is stored for Quiz or Result, and the update cache is empty.
C16_RestartReturnsToStart ==
    last_call.op = "restart_quiz" =>
        /\ screen_manager.current_screen = Some("start")
        /\ FreshSession(quiz_session)
        /\ "quiz" \notin DOMAIN screen_manager.screen_states
        /\ "result" \notin DOMAIN screen_manager.screen_states
        /\ screen_manager.cache = EmptyMap

\* what restart_quiz does bring about whatever the screen: a fresh session
\* under a new identifier, the SessionManager's screen at Start, no ScreenState
\* stored for Result, an empty cache
C16_RestartResetsSession ==
    last_call.op = "restart_quiz" =>
        /\ FreshSession(quiz_session)
        /\ quiz_session.session_id = session_manager.session_id
        /\ sm_get_current_screen(State) = "start"
        /\ "result" \notin DOMAIN screen_manager.screen_states
        /\ screen_manager.cache = EmptyMap
        /\ last_call.returned => screen_manager.current_screen = Some("start")

\* C17: handle_quiz_interruption called on the Quiz screen before the user has
\* confirmed returns False and changes neither the current screen nor the quiz
\* session; called after the user has confirmed it restarts, leaving the
\* current screen Start and the session fresh; with a cancel or no answer it
\* changes neither the session nor the screen.
C17_TwoStepInterruption ==
    [][ last_call'.op = "handle_quiz_interruption" =>
          /\ ~session_state.quiz_interruption_confirmed =>
                /\ ~last_call'.returned
                /\ screen_manager'.current_screen = screen_manager.current_screen
                /\ quiz_session' = quiz_session
          /\ session_state.quiz_interruption_confirmed =>
                /\ screen_manager'.current_screen = Some("start")
                /\ FreshSession(quiz_session')
                /\ ~session_state'.quiz_interruption_confirmed ]_vars

\* the first step of the flow alone: without the confirmation flag the call
\* returns False and changes neither screen nor session
C17_FirstCallChangesNothing ==
    [][ /\ last_call'.op = "handle_quiz_interruption"
        /\ ~session_state.quiz_interruption_confirmed
        => /\ ~last_call'.returned
           /\ screen_manager' = screen_manager
           /\ quiz_session' = quiz_session
           /\ session_state'.current_screen = session_state.current_screen ]_vars

\* C18: complete_quiz called on the Quiz screen marks the session completed,
\* makes Result the current screen with a ScreenState whose payload holds the
\* completion time, the session's total_questions and its count of correct
\* answers, and returns True without raising.
C18_CompleteQuiz ==
    [][ /\ last_call'.op = "complete_quiz"
        /\ screen_manager.current_screen = Some("quiz")
        => /\ ~last_call'.raised
           /\ last_call'.returned
           /\ quiz_session'.is_completed
           /\ screen_manager'.current_screen = Some("result")
           /\ screen_manager'.screen_states["result"].data =
                 { <<"completed_at", "now">>,
                   <<"total_questions", quiz_session.settings.total_questions>>,
                   <<"correct_answers", quiz_session.score>> } ]_vars

-----------------------------------------------------------------------------
(* Properties of the application *)

\* C13: in every reachable state of the application, the number of judged
\* answers, in the validator's total_questions and in the session's results, is
\* at most the session's configured settings.total_questions.
C13_AnsweredAtMostConfigured ==
    /\ statistics.total_questions <= quiz_session.settings.total_questions
    /\ Len(quiz_session.results) <= quiz_session.settings.total_questions

\* on the quiz screen, where answers are taken, no answer is judged once the
\* configured number has been
C13_NoAnswerPastConfigured ==
    [][ Len(calls') = Len(calls) + 1 =>
          statistics.total_questions < quiz_session.settings.total_questions ]_vars

-----------------------------------------------------------------------------
(* Properties of generate_question *)

\* the tiers, by poem number
InTier(number, difficulty) ==
    CASE difficulty = "beginner" ->
            number \in {1, 2, 5, 7, 9, 13, 17, 20, 23, 24, 33, 35, 43, 48, 51, 57, 66, 77, 83, 99}
      [] difficulty = "intermediate" -> number \in 21..60
      [] OTHER -> TRUE

Remaining(c, used) ==
    {p \in poems_data :
        /\ InTier(PoemNumber(p), c.difficulty)
        /\ PoemNumber(p) \notin c.exclude_numbers
        /\ <<PoemNumber(p), c.quiz_type>> \notin used}

\* C22: generate_question returns None exactly when no poem of the tier remains
\* after removing the excluded numbers and the used (number, quiz_type) pairs,
\* and then leaves the used-question set unchanged; reset_used_questions empties
\* the set, so that a poem of the tier that is not excluded can be drawn again.
C22_NoneIffNothingRemains ==
    [][ /\ last_call'.op = "generate_question" =>
              /\ (~gen_hung' /\ question' = None) <=> (Remaining(last_call', used_questions) = {})
              /\ Remaining(last_call', used_questions) = {} =>
                    used_questions' = used_questions /\ ~gen_hung'
        /\ last_call'.op = "reset_used_questions" =>
              /\ used_questions' = {}
              /\ \A quiz_type \in QuizType, difficulty \in Difficulties :
                    Remaining(GenCall(quiz_type, difficulty, {}), used_questions') =
                       {p \in poems_data : InTier(PoemNumber(p), difficulty)} ]_vars

\* generate_question has just returned None because every poem of the tier that
\* is not excluded has been used for the quiz type
C22_Witness ==
    /\ last_call.op = "generate_question"
    /\ question = None
    /\ ~gen_hung
    /\ used_questions # {}
    /\ Remaining(last_call, {}) # {}
    /\ Remaining(last_call, used_questions) = {}

\* C23: every QuizQuestion generate_question returns has exactly 4 choices.
C23_FourChoices ==
    question # None => Len(question[1].choices) = 4

\* the poem of the corpus a question is about
PoemOf(q) == CHOOSE p \in poems_data : PoemNumber(p) = q.poem_number

\* the distinct wrong answers the corpus offers for a question on poem_data: the
\* other poems' fields unlike the correct answer (author_to_poem does not compare
\* with the correct answer), the other authors
ValidDistractors(poem_data, quiz_type) ==
    IF quiz_type = "POEM_TO_AUTHOR"
    THEN {p.author : p \in poems_data} \ {poem_data.author}
    ELSE IF quiz_type = "AUTHOR_TO_POEM"
    THEN {WrongAnswerOf(p, quiz_type) : p \in OtherPoems(poem_data)}
    ELSE {WrongAnswerOf(p, quiz_type) : p \in OtherPoems(poem_data)}
              \ {CorrectOf(poem_data, quiz_type)}

\* C30: once a poem is chosen the drawing of distractors ends, with 3 of them
\* when at least 3 valid distinct ones exist and with as many as exist
\* otherwise, and a question is returned.
C30_DistractorDrawEnds ==
    /\ ~gen_hung
    /\ question # None =>
          Len(question[1].choices) - 1 =
             Min(3, Cardinality(ValidDistractors(PoemOf(question[1]), question[1].quiz_type)))

\* the three quiz types that draw from the list of other poems do end so
C30_ListDrawEnds ==
    /\ (last_call.op = "generate_question" /\ last_call.quiz_type # "POEM_TO_AUTHOR") => ~gen_hung
    /\ question # None =>
          Len(question[1].choices) - 1 =
             Min(3, Cardinality(ValidDistractors(PoemOf(question[1]), question[1].quiz_type)))

-----------------------------------------------------------------------------
(* Properties of navigate_to *)

ConditionAskedFor(m, from_screen, to_screen) ==
    \E i \in 1..Len(m.navigation_rules) :
        /\ Some(m.navigation_rules[i].from_screen) = from_screen
        /\ m.navigation_rules[i].to_screen = to_screen
        /\ m.navigation_rules[i].condition # None

\* C28: navigate_to(target) with target the current screen and force false
\* returns False and changes nothing; with force true the transition is
\* performed like any other (new ScreenState, history entry) unless a
\* navigation rule refuses it, and it is performed when none does.
C28_SameScreen ==
    [][ (last_call'.op = "navigate_to" /\ screen_manager.current_screen = Some(last_call'.target)) =>
          LET target == last_call'.target
              refused == \/ ConditionAskedFor(screen_manager, Some(target), target)
                            /\ ~last_call'.cond_ok
                         \/ ConfirmationsAskedFor(screen_manager, Some(target), target) # {}
          IN  IF ~last_call'.force
              THEN /\ ~last_call'.returned
                   /\ screen_manager' = screen_manager
                   /\ session_state' = session_state
              ELSE /\ last_call'.returned <=> ~refused
                   /\ last_call'.returned =>
                         /\ screen_manager'.current_screen = Some(target)
                         /\ screen_manager'.screen_states[target].previous_screen = Some(target)
                         /\ screen_manager'.screen_states[target].data = last_call'.data
                         /\ ~screen_manager'.screen_states[target].is_dirty
                         /\ screen_manager'.navigation_history =
                               Append(screen_manager.navigation_history,
                                      [from |-> Some(target), to |-> target])
                   /\ ~last_call'.returned =>
                         Navigation(screen_manager') = Navigation(screen_manager) ]_vars

\* navigate_to('start') without force has just been refused on the start
\* screen, whose stored state is dirty
C28_Witness ==
    /\ last_call.op = "navigate_to"
    /\ last_call.target = "start"
    /\ ~last_call.force
    /\ ~last_call.returned
    /\ screen_manager.current_screen = Some("start")
    /\ screen_manager.screen_states["start"].is_dirty

(* Properties of the history and the screen stack *)

\* the history is within its limit; the stack is within its limit and holds no
\* screen id twice
HistoryAndStackBounded ==
    /\ Len(screen_manager.navigation_history) <= 50
    /\ Len(screen_manager.screen_stack) <= 10
    /\ \A i, j \in 1..Len(screen_manager.screen_stack) :
          screen_manager.screen_stack[i] = screen_manager.screen_stack[j] => i = j

\* a successful navigation appends its transition to the history and, when the
\* history was full, drops the oldest entry and nothing else
HistoryKeepsMostRecent ==
    (last_call'.op = "navigate_to" /\ last_call'.returned) =>
        LET history == screen_manager.navigation_history
            entry == [from |-> screen_manager.current_screen, to |-> last_call'.target]
        IN  screen_manager'.navigation_history =
                IF Len(history) < 50 THEN Append(history, entry)
                ELSE Append(Tail(history), entry)

\* C27: after any sequence of navigations the history holds at most 50 entries,
\* which are the most recent successful transitions in order (the oldest are
\* dropped first), and the screen stack holds at most 10 screen ids, none twice.
C27_HistoryAndStack == []HistoryAndStackBounded /\ [][HistoryKeepsMostRecent]_vars

\* the history and the stack are full, the first transitions of the walk have
\* been dropped, and the start screen, second from the top of the stack, has
\* just been entered again
C27_Witness ==
    /\ last_call.op = "navigate_to"
    /\ last_call.returned
    /\ last_call.target = "start"
    /\ Len(screen_manager.navigation_history) = 50
    /\ screen_manager.navigation_history[1].from # None
    /\ screen_manager.navigation_history[48].to = "start"
    /\ Len(screen_manager.screen_stack) = 10
    /\ screen_manager.screen_stack[10] = "start"

(* Properties of should_update *)

\* C29: should_update with strategy PARTIAL returns False exactly when the
\* content hash of data equals the hash of the data of the previous PARTIAL
\* call for the same component on the same current screen; it returns True on
\* the first call and when the hash differs from that of the previous call.
C29_PartialComparesWithPrevious ==
    [][ (last_call'.op = "should_update" /\ last_call'.strategy = "partial") =>
          LET k == <<screen_manager.current_screen, last_call'.component_id>>
          IN  ~last_call'.returned <=>
                  /\ k \in DOMAIN partial_seen
                  /\ hash_data(partial_seen[k]) = hash_data(last_call'.data) ]_vars

\* what should_update does: FULL returns True and leaves the cache alone;
\* PARTIAL returns False exactly when the cache holds, for the current screen,
\* the component and the type of data, the hash of data, and otherwise stores it
C29_PartialComparesWithinType ==
    [][ last_call'.op = "should_update" =>
          LET cache == screen_manager.cache
              data == last_call'.data
              k == <<screen_manager.current_screen, last_call'.component_id, data.type>>
          IN  IF last_call'.strategy = "full"
              THEN last_call'.returned /\ screen_manager' = screen_manager
              ELSE /\ ~last_call'.returned <=>
                          (k \in DOMAIN cache /\ cache[k].hash = hash_data(data))
                   /\ screen_manager'.cache = MapSet(cache, k, [hash |-> hash_data(data)]) ]_vars

(* Properties of two sessions in one process *)

\* C24: with two sessions served by the same process, no operation performed
\* in one session changes state the other session can observe: its
\* st.session_state and the SessionManager it gets from get_session_manager.
C24_NoEffectOnOtherSession ==
    [][ (peer # None /\ last_call'.op \notin {"initialize_session", "switch_session"}) =>
          /\ peer' = peer
          /\ session_manager' = session_manager ]_vars

\* C24, second part: the two sessions never have the same session identity
C24_DistinctIdentities ==
    peer # None => peer[1].quiz_session.session_id # quiz_session.session_id

(* Properties of the statistics across play-throughs *)

\* C25: when the first question of a play-through is answered on the quiz
\* screen (the quiz session holds no result yet), the validator's statistics
\* were empty: nothing of a previous play-through is carried into the next.
C25_StatisticsEmptyAtFirstQuestion ==
    [][ (last_call'.op = "record_answer" /\ quiz_session.results = <<>>) =>
          statistics = NewStatistics ]_vars

\* what does hold: the Start button leaves the statistics empty
C25_StartButtonResets ==
    [][ (last_call'.op = "navigate_to" /\ last_call'.target = "quiz"
            /\ screen_manager.current_screen = Some("start")
            /\ FreshSession(quiz_session') /\ statistics' # statistics) =>
          statistics' = NewStatistics ]_vars

(* Properties of the comparison of texts *)

\* how many of the characters of a text occur anywhere in another
RECURSIVE CharsFoundIn(_, _)
CharsFoundIn(text, other) ==
    IF text = <<>> THEN 0
    ELSE (IF \E i \in 1..Len(other) : other[i] = Head(text) THEN 1 ELSE 0)
            + CharsFoundIn(Tail(text), other)

\* the judgement of a text against the correct one: the normalized forms are
\* equal, or the characters of the shorter that occur in the longer are at least
\* 0.9 of the length of the longer
TextAccepted(correct, user) ==
    LET c == normalize_text(correct)
        u == normalize_text(user)
        shorter == IF Len(u) <= Len(c) THEN u ELSE c
        longer == IF Len(u) <= Len(c) THEN c ELSE u
    IN  \/ c = u
        \/ /\ Len(longer) > 0
           /\ 10 * CharsFoundIn(shorter, longer) >= 9 * Len(longer)

\* the call just made gave a non-empty text and no index
JudgedByText ==
    /\ result # None
    /\ LastCall.answer_index = None
    /\ LastCall.user_answer # None
    /\ LastCall.user_answer[1] # <<>>

\* C31, as stated: without an index, a non-empty user_answer is judged correct
\* exactly when its normalized form equals the normalized correct_answer or the
\* ratio is at least 0.9.
C31_TextJudgedBySimilarity ==
    JudgedByText =>
        (is_correct(LastResult)
            <=> TextAccepted(LastCall.correct_answer, LastCall.user_answer[1]))

\* C31, amended: the same when correct_answer is not empty and no timeout
\* applies; then an answer whose normalized length is below 0.9 of that of the
\* correct answer is never judged correct. With an empty correct_answer, or a
\* timeout that time_taken has reached, the answer is not judged correct.
C31_TextJudgedBySimilarityInTime ==
    JudgedByText =>
        /\ (LastCall.correct_answer # <<>> /\ NoTimeoutApplies) =>
              /\ is_correct(LastResult)
                    <=> TextAccepted(LastCall.correct_answer, LastCall.user_answer[1])
              /\ 10 * Len(normalize_text(LastCall.user_answer[1]))
                    < 9 * Len(normalize_text(LastCall.correct_answer))
                    => ~is_correct(LastResult)
        /\ (LastCall.correct_answer = <<>> \/ ~NoTimeoutApplies) => ~is_correct(LastResult)

\* the first nine of the ten characters of the correct answer, accepted with a
\* ratio of exactly 0.9
C31_Witness ==
    /\ JudgedByText
    /\ NoTimeoutApplies
    /\ LastCall.correct_answer = TenLetters
    /\ LastCall.user_answer[1] = SubSeq(TenLetters, 1, 9)
    /\ LastResult.status = "CORRECT"

(* Properties of the session while a quiz is played *)

\* C32: in every state reached by playing a quiz, validate_session_state
\* reports no issue: current_question >= 0, score >= 0 and as many recorded
\* results as current_question.
C32_NoIssueWhilePlaying == validate_session_state(State) = {}

\* what does hold while a quiz is played: the only issue ever reported is that
\* of the results, and there are never fewer results than current_question
C32_OnlyResultsIssue ==
    /\ validate_session_state(State) \subseteq {"results"}
    /\ Len(quiz_session.results) >= quiz_session.current_question

(* Properties of the statistics as a whole *)

\* the sum of the points of a list of results
RECURSIVE SumPoints(_)
SumPoints(results) ==
    IF results = <<>> THEN 0 ELSE points(Head(results)) + SumPoints(Tail(results))

\* the i-th recorded result is the one of the i-th call
ResultOfCall(r, c) ==
    /\ r.poem_number = c.poem_number
    /\ r.user_answer = c.user_answer
    /\ r.answer_index = c.answer_index
    /\ r.hint_used = c.hint_used

\* C33: after any sequence of check_answer and reset_statistics calls,
\* total_questions = correct_answers + incorrect_answers + skipped_answers +
\* timeout_answers = the length of answer_results, total_points is the sum of the
\* points of the recorded results, and answer_results lists the results of the
\* calls in the order the answers were judged.
C33_StatisticsConsistent ==
    /\ statistics.total_questions
          = statistics.correct_answers + statistics.incorrect_answers
              + statistics.skipped_answers + statistics.timeout_answers
    /\ statistics.total_questions = Len(statistics.answer_results)
    /\ statistics.total_points = SumPoints(statistics.answer_results)
    /\ Len(statistics.answer_results) = Len(calls)
    /\ \A i \in 1..Len(statistics.answer_results) :
          i <= Len(calls) => ResultOfCall(statistics.answer_results[i], calls[i])

\* C34: when check_answer takes its fail-soft path (here on a time_taken of
\* None), the statistics are as they were before the call.
C34_FaultLeavesStatistics ==
    [][ (Len(calls') = Len(calls) + 1 /\ calls'[Len(calls')].time_taken = None) =>
          statistics' = statistics ]_vars

\* what does hold: a fault in _determine_answer_status, before the statistics
\* are touched, leaves them as they were
C34_EarlyFaultLeavesStatistics ==
    [][ (Len(calls') = Len(calls) + 1 /\ DetermineRaises(calls'[Len(calls')])) =>
          statistics' = statistics ]_vars

(* Properties of the two records of the current screen *)

\* C35: after every operation the SessionManager's and the ScreenManager's
\* current screen are the same screen.
C35_ScreenRecordsAgree ==
    (last_call.op # "" /\ screen_manager.current_screen # None) =>
        screen_manager.current_screen = Some(sm_get_current_screen(State))

\* what does hold: when restart_quiz has returned True both records name the
\* start screen
C35_AgreeAfterRestart ==
    (last_call.op = "restart_quiz" /\ last_call.returned) =>
        /\ screen_manager.current_screen = Some("start")
        /\ sm_get_current_screen(State) = "start"

(* Properties of the progress of a session *)

\* C36: after any sequence of start_new_quiz and advance_question calls,
\* 0 <= current_question <= settings.total_questions, and is_completed is true
\* exactly when current_question = total_questions.
C36_ProgressWithinTotal ==
    /\ 0 <= quiz_session.current_question
    /\ quiz_session.current_question <= quiz_session.settings.total_questions
    /\ quiz_session.is_completed
          <=> quiz_session.current_question = quiz_session.settings.total_questions

\* what does hold: current_question is never negative, and is_completed is true
\* exactly when current_question has reached total_questions or passed it
C36_CompletedFromTotalOn ==
    /\ 0 <= quiz_session.current_question
    /\ quiz_session.is_completed
          <=> quiz_session.current_question >= quiz_session.settings.total_questions

(* Properties of the two tallies of a play-through *)

\* the poem numbers of the validator's results that are not correct, in order
ValidatorWrongNumbers(stats) ==
    LET wrong == SelectSeq(stats.answer_results, LAMBDA r : ~is_correct(r))
    IN  [i \in 1..Len(wrong) |-> wrong[i].poem_number]

\* the session's tally and the validator's name the same answers
TalliesAgree(q, stats) ==
    /\ q.score = stats.correct_answers
    /\ Len(q.results) = Len(stats.answer_results)
    /\ q.wrong_answers = ValidatorWrongNumbers(stats)

\* C37: after every answer or skip submitted on the quiz screen, the session's
\* score equals the validator's correct_answers, the session's results are as
\* many as the validator's answer_results, and the session's wrong_answers are
\* the poem numbers of the validator's results that are not correct.
C37_TalliesAgree ==
    [][ last_call'.op = "record_answer" => TalliesAgree(quiz_session', statistics') ]_vars

\* what does hold: an answer or skip submitted on the quiz screen is counted
\* alike by both, so tallies that agreed before it agree after it
C37_AnswerCountedAlike ==
    [][ (last_call'.op = "record_answer" /\ TalliesAgree(quiz_session, statistics)) =>
          TalliesAgree(quiz_session', statistics') ]_vars

\* an answer was submitted on tallies that agreed
C37_AgreedOnce ==
    /\ last_call.op = "record_answer"
    /\ quiz_session.score = 1
    /\ Len(quiz_session.wrong_answers) = 1
    /\ TalliesAgree(quiz_session, statistics)

(* Properties of navigation from inside a transition callback *)

\* C38: transition_in_progress is false after every navigate_to; the non-forced
\* navigate_to a transition callback makes is rejected; and a navigate_to that
\* returns True leaves the current screen equal to its own target.
C38_ReturnsTrueAtTarget ==
    [][ last_call'.op = "navigate_to" =>
          /\ ~screen_manager'.transition_in_progress
          /\ last_call'.inner # None => ~last_call'.inner[1].returned
          /\ last_call'.returned =>
                screen_manager'.current_screen = Some(last_call'.target) ]_vars

\* what does hold: transition_in_progress is false between calls
C38_FlagFalseBetweenCalls == ~screen_manager.transition_in_progress

\* what does hold: when the callback does not call navigate_home() first, its
\* navigate_to is rejected, changes nothing, and the outer navigate_to that
\* returns True leaves the current screen equal to its own target
C38_NonForcedAloneRejected ==
    [][ (last_call'.op = "navigate_to" /\ last_call'.inner # None
            /\ ~last_call'.callback.home_first) =>
          /\ ~last_call'.inner[1].returned
          /\ last_call'.inner[1].unchanged
          /\ last_call'.returned =>
                screen_manager'.current_screen = Some(last_call'.target) ]_vars

\* the non-forced navigate_to of an 'enter' callback has just been rejected
C38_RejectedInCallback ==
    /\ last_call.op = "navigate_to"
    /\ last_call.returned
    /\ last_call.inner # None
    /\ last_call.callback.event = "after"
    /\ ~last_call.callback.home_first
    /\ ~last_call.inner[1].returned

(* Properties of the on_transition hooks *)

\* C39: whenever navigate_to returns False, no on_transition hook of any rule
\* has been executed during that call, also when several rules match the same
\* (from, to) pair and a later one rejects.
C39_NoHookWhenRejected ==
    [][ (last_call'.op = "navigate_to" /\ ~last_call'.returned) =>
          last_call'.hooks = <<>> ]_vars

\* what does hold: a call rejected by the condition of the rule that carries the
\* hook has run no hook
C39_NoHookWhenConditionFails ==
    [][ (last_call'.op = "navigate_to" /\ ~last_call'.returned /\ ~last_call'.cond_ok) =>
          last_call'.hooks = <<>> ]_vars

====
